---- MODULE Spec2Model ----
(***************************************************************************)
(* A state-machine model of josechifflet/nodejs-jwt-auth-service: the      *)
(* session ledger (Session table in the database, session keys in the     *)
(* cache), the hasSession middleware, the AuthController handlers that    *)
(* create and revoke sessions, and the OTP verification handler with its  *)
(* attempt counter and replay blacklist.                                  *)
(*                                                                         *)
(* Every request is handled by a worker; each `await` of a handler on the *)
(* database or the cache is one atomic step, and the steps of different   *)
(* workers interleave freely (Node.js event loop, several instances).     *)
(***************************************************************************)
EXTENDS Integers, FiniteSets, Sequences, TLC

\* ------------------------------------------------------------------ bounds
\* Number of requests that may be in flight at the same time.
NumWorkers == 2
\* Number of requests started in one behaviour of Spec.
MaxRequests == 4
\* Number of requests started in one behaviour of SpecOTP.
MaxOtpRequests == 3
\* Number of 30-second time-steps the clock advances in SpecOTP.
MaxStep == 1

\* Number of tokens signed in one behaviour of SpecJWT.
MaxSigns == 2
\* The wall clock of SpecJWT starts at FirstNow and advances to LastNow
\* milliseconds: the range holds the turn of a second.
FirstNow == 998
LastNow == 1001

\* Number of requests started in one behaviour of SpecSlowDown.
MaxThrottled == 5
\* The threshold that slowDown(delayAfter) is built with in SpecSlowDown
\* (loadExpress passes 75).
DelayAfter == 2

\* Number of requests started in one behaviour of SpecErr.
MaxFailing == 2

\* Number of requests started in one behaviour of SpecRoutes.
MaxRouted == 2

\* ------------------------------------------------------- program constants
\* verifyOTP: `Number.parseInt(attempts, 10) === 3`.
OtpAttemptLimit == 3
\* forgotPassword: `Number.parseInt(attempts, 10) === 2`.
ForgotPasswordLimit == 2
\* verifyOTP: signEdDSAJWT(jti, user.userID, 15).
OtpTokenTtlMinutes == 15

None == "none"
Workers == 1..NumWorkers
Users == {"alice", "bob"}
Passwords == {"pw1", "pw2"}

VARIABLES
  users,          \* User table: userID -> [password, isActive, forgotPasswordCode, totpSecret, confirmationCode]
  sessionTable,   \* Session table: set of rows [sessionPK, sessionID, userPK]
  nextSessionPK,  \* the SERIAL sequence of Session.sessionPK
  nextUUID,       \* number of random identifiers drawn so far (randomUUID, randomBytes, nanoid)
  sessionCache,   \* cache: sessionID -> userID
  forgotAttempts, \* cache: userID -> forgot-password attempts
  otpAttempts,    \* cache: userID -> failed OTP attempts (TTL window)
  otpBlacklist,   \* cache: set of [userID, code, step] consumed codes, step the time of the write
  otpSessions,    \* cache: jti -> userID of the step-up tokens
  alertLock,      \* cache: set of userIDs whose security alert has been sent
  alerts,         \* userID -> number of security alert emails sent
  clock,          \* the current 30-second time-step
  req,            \* worker -> the request it handles and the handler's position
  started,        \* number of requests started
  issued,         \* history: session tokens sent in a login response, [jti, sub]
  revoked,        \* history: [jti, by] revocations acknowledged by a success response
  lastWriter,     \* history: userID -> sessionID written by the last upsert, None after a delete
  otpLog,         \* history: userID -> failures and notifications of the window, codes consumed, tokens issued
  dateNow,        \* Date.now(): the wall clock in milliseconds
  hits,           \* slow-down store: caller key -> requests counted in the window
  hasAskedOTP     \* cache: the userIDs whose has-asked-OTP marker is set

vars == <<users, sessionTable, nextSessionPK, nextUUID, sessionCache,
          forgotAttempts, otpAttempts, otpBlacklist, otpSessions, alertLock,
          alerts, clock, req, started, issued, revoked, lastWriter, otpLog,
          dateNow, hits, hasAskedOTP>>

sessionVars == <<sessionTable, nextSessionPK, sessionCache, issued, revoked, lastWriter>>
otpVars == <<otpAttempts, otpBlacklist, otpSessions, alertLock, alerts, clock, otpLog>>
edgeVars == <<dateNow, hits, hasAskedOTP>>

\* ------------------------------------------------------------ pure helpers
\* util/passwords: the stored password is a hash, verifyPassword recomputes it.
hashPassword(pw) == <<"argon2", pw>>
verifyPassword(hash, pw) == hash = hashPassword(pw)

\* util/safe-compare: constant-time equality of two strings.
safeCompare(a, b) == a = b

\* A function with key k set to v (cache SET, upsert of a key).
Put(f, k, v) == [x \in DOMAIN f \cup {k} |-> IF x = k THEN v ELSE f[x]]
\* A function without key k (cache DEL).
Del(f, k) == [x \in DOMAIN f \ {k} |-> f[x]]

\* The userPK of a user: the model names users by their userID, and userPK is
\* in one-to-one correspondence with it (User_pkey, User_userID_key).
UserPK(u) == u

\* The n-th random identifier drawn: randomUUID(), nanoid() and randomBytes()
\* return values that never repeat.
UUID(n) == <<"id1", "id2", "id3", "id4", "id5", "id6", "id7", "id8", "id9",
             "id10", "id11", "id12">>[n]

Idle == [kind |-> "idle", pc |-> "idle"]
Done(kind, status) == [kind |-> kind, pc |-> "done", status |-> status]
Free(w) == req[w].pc \in {"idle", "done"}

\* ------------------------------------------------------------ the stores
\* prisma.session.findUnique({ where }): rows are unique by sessionPK, by
\* sessionID and by userPK (Session_pkey, Session_sessionID_key, Session_userPK_key).
RowsBySessionID(sid) == {r \in sessionTable : r.sessionID = sid}
RowsBySessionPK(pk) == {r \in sessionTable : r.sessionPK = pk}
RowsByUserPK(u) == {r \in sessionTable : r.userPK = UserPK(u)}

\* SessionService.getSession({ sessionID }): the set holding the row, empty for null.
getSession(sid) == RowsBySessionID(sid)

\* prisma.session.upsert of createOrUpdateSession: `where: { userPK }`; the
\* update branch writes a fresh randomUUID() as sessionID into the existing
\* row, the create branch inserts a row with the next sessionPK.
upsertSession_AlwaysInsert(table, u, uuid, pk) ==
  table \cup {[sessionPK |-> pk, sessionID |-> uuid, userPK |-> UserPK(u)]}

upsertSession_KeepsSessionID(table, u, uuid, pk) ==
  IF \E r \in table : r.userPK = UserPK(u)
    THEN table
    ELSE table \cup {[sessionPK |-> pk, sessionID |-> uuid, userPK |-> UserPK(u)]}

\* The upsert whose update branch writes the new sessionID into every row.
upsertSession_UpdatesEveryRow(table, u, uuid, pk) ==
  IF \E r \in table : r.userPK = UserPK(u)
    THEN {[r EXCEPT !.sessionID = uuid] : r \in table}
    ELSE table \cup {[sessionPK |-> pk, sessionID |-> uuid, userPK |-> UserPK(u)]}

upsertSession(table, u, uuid, pk) ==
  IF \E r \in table : r.userPK = UserPK(u)
    THEN {IF r.userPK = UserPK(u) THEN [r EXCEPT !.sessionID = uuid] ELSE r : r \in table}
    ELSE table \cup {[sessionPK |-> pk, sessionID |-> uuid, userPK |-> UserPK(u)]}

\* CacheService.getUserIDFromSession(sessionID): the userID, or None.
getUserIDFromSession(sid) ==
  IF sid \in DOMAIN sessionCache THEN sessionCache[sid] ELSE None

\* CacheService.setSession(sessionID, userID): put, an idempotent upsert of one key.
setSession(cache, sid, u) == Put(cache, sid, u)

\* CacheService.deleteSession(sessionID): delete of one key.
cacheDeleteSession(cache, sid) == Del(cache, sid)

\* CacheService.deleteUserSessions(userID): deleteAllForSubject.
deleteUserSessions(cache, u) ==
  [x \in {k \in DOMAIN cache : cache[k] # u} |-> cache[x]]

\* signHS256JWT(jti, sub, expiration): the claims that identify the session.
signHS256JWT(jti, sub) == [jti |-> jti, sub |-> sub]

\* What hasSession decides for a token when nothing else runs in between:
\* the jti is in the cache and a row with that sessionID is in the database.
SessionValidIn(cache, table, jti) ==
  /\ jti \in DOMAIN cache
  /\ \E r \in table : r.sessionID = jti

SessionValid(jti) == SessionValidIn(sessionCache, sessionTable, jti)

\* getUserByCredentials(username, ...): credentials are unique, an unknown one finds nobody.
Credentials == Users \cup {"ghost"}
getUserByCredentials(c) == IF c \in DOMAIN users THEN c ELSE None

IssuedTo(u) == {t.jti : t \in {x \in issued : x.sub = u}}
RevokedBy(jti) == {r.by : r \in {x \in revoked : x.jti = jti}}

\* ------------------------------------------------------------ Init
InitUser == [password |-> hashPassword("pw1"), isActive |-> TRUE,
             forgotPasswordCode |-> None, totpSecret |-> 0,
             confirmationCode |-> None]

InitCommon ==
  /\ users = [u \in Users |-> InitUser]
  /\ sessionTable = {}
  /\ nextSessionPK = 1
  /\ nextUUID = 0
  /\ sessionCache = [k \in {} |-> None]
  /\ forgotAttempts = [u \in Users |-> 0]
  /\ otpAttempts = [u \in Users |-> 0]
  /\ otpBlacklist = {}
  /\ otpSessions = [k \in {} |-> None]
  /\ alertLock = {}
  /\ alerts = [u \in Users |-> 0]
  /\ clock = 0
  /\ req = [w \in Workers |-> Idle]
  /\ started = 0
  /\ issued = {}
  /\ revoked = {}
  /\ lastWriter = [u \in Users |-> None]
  /\ otpLog = [u \in Users |-> [failed |-> 0, accepted |-> {}, tokens |-> {}, notified |-> 0]]
  /\ dateNow = 0
  /\ hits = [k \in {} |-> 0]
  /\ hasAskedOTP = {}

Init == InitCommon

\* ------------------------------------------------------------ login
\* POST /auth/login, AuthController.login.
StartLogin(w) ==
  /\ Free(w)
  /\ started < MaxRequests
  /\ \E c \in Credentials, pw \in Passwords :
       req' = [req EXCEPT ![w] = [kind |-> "login", pc |-> "lg_user",
                                  username |-> c, password |-> pw]]
  /\ started' = started + 1
  /\ UNCHANGED <<users, nextUUID, forgotAttempts, edgeVars, sessionVars, otpVars>>

\* getUserByCredentials and verifyPassword, without the isActive check.
LoginFindUser_NoActiveCheck(w) ==
  /\ req[w].pc = "lg_user"
  /\ LET u == getUserByCredentials(req[w].username) IN
       req' = [req EXCEPT ![w] =
         IF u = None \/ ~verifyPassword(users[u].password, req[w].password)
           THEN [kind |-> "login", pc |-> "done", status |-> 401, overlapped |-> FALSE]
         ELSE [kind |-> "login", pc |-> "lg_upsert", user |-> u]]
  /\ UNCHANGED <<users, nextUUID, forgotAttempts, edgeVars, started, sessionVars, otpVars>>

\* getUserByCredentials and the isActive check, without verifyPassword.
LoginFindUser_NoPasswordCheck(w) ==
  /\ req[w].pc = "lg_user"
  /\ LET u == getUserByCredentials(req[w].username) IN
       req' = [req EXCEPT ![w] =
         IF u = None
           THEN [kind |-> "login", pc |-> "done", status |-> 401, overlapped |-> FALSE]
         ELSE IF ~users[u].isActive
           THEN [kind |-> "login", pc |-> "done", status |-> 403, overlapped |-> FALSE]
         ELSE [kind |-> "login", pc |-> "lg_upsert", user |-> u]]
  /\ UNCHANGED <<users, nextUUID, forgotAttempts, edgeVars, started, sessionVars, otpVars>>

\* getUserByCredentials, verifyPassword and the isActive check.
LoginFindUser(w) ==
  /\ req[w].pc = "lg_user"
  /\ LET u == getUserByCredentials(req[w].username) IN
       req' = [req EXCEPT ![w] =
         IF u = None \/ ~verifyPassword(users[u].password, req[w].password)
           THEN [kind |-> "login", pc |-> "done", status |-> 401, overlapped |-> FALSE]
         ELSE IF ~users[u].isActive
           THEN [kind |-> "login", pc |-> "done", status |-> 403, overlapped |-> FALSE]
         ELSE [kind |-> "login", pc |-> "lg_upsert", user |-> u]]
  /\ UNCHANGED <<users, nextUUID, forgotAttempts, edgeVars, started, sessionVars, otpVars>>

\* createOrUpdateSession, the prisma.session.upsert.
LoginUpsert(w) ==
  /\ req[w].pc = "lg_upsert"
  /\ LET u == req[w].user
         uuid == UUID(nextUUID + 1)
     IN
       /\ sessionTable' = upsertSession(sessionTable, u, uuid, nextSessionPK)
       /\ nextSessionPK' = IF RowsByUserPK(u) = {} THEN nextSessionPK + 1 ELSE nextSessionPK
       /\ nextUUID' = nextUUID + 1
       /\ lastWriter' = [lastWriter EXCEPT ![u] = uuid]
       /\ req' = [req EXCEPT ![w] =
            [kind |-> "login", pc |-> "lg_cache", user |-> u,
             sessionID |-> (CHOOSE r \in sessionTable' : r.userPK = UserPK(u)).sessionID,
             overlapped |-> \E v \in Workers \ {w} :
                 /\ req[v].kind = "login" /\ req[v].pc = "lg_cache" /\ req[v].user = u]]
  /\ UNCHANGED <<users, forgotAttempts, edgeVars, started, sessionCache, issued, revoked, otpVars>>

\* The login answers with the token and leaves the cache as it was.
LoginSetCache_NoCacheWrite(w) ==
  /\ req[w].pc = "lg_cache"
  /\ issued' = issued \cup {signHS256JWT(req[w].sessionID, req[w].user)}
  /\ req' = [req EXCEPT ![w] = [kind |-> "login", pc |-> "done", status |-> 200,
                                overlapped |-> req[w].overlapped]]
  /\ UNCHANGED <<users, nextUUID, forgotAttempts, edgeVars, started, sessionTable,
                 nextSessionPK, sessionCache, revoked, lastWriter, otpVars>>

\* createOrUpdateSession, CacheService.setSession; then signHS256JWT and the response.
LoginSetCache(w) ==
  /\ req[w].pc = "lg_cache"
  /\ sessionCache' = setSession(sessionCache, req[w].sessionID, req[w].user)
  /\ issued' = issued \cup {signHS256JWT(req[w].sessionID, req[w].user)}
  /\ req' = [req EXCEPT ![w] = [kind |-> "login", pc |-> "done", status |-> 200,
                                overlapped |-> req[w].overlapped]]
  /\ UNCHANGED <<users, nextUUID, forgotAttempts, edgeVars, started, sessionTable,
                 nextSessionPK, revoked, lastWriter, otpVars>>

\* ------------------------------------------------------------ hasSession
\* The routes behind asyncHandler(hasSession) that the model follows:
\* "protected" is any such route whose controller leaves the session stores alone.
SessionKinds == {"protected", "logout", "updatePassword", "deleteMySession"}

\* A request that carries the bearer token t.
SessionRequest(kind, t) ==
  [kind |-> kind, pc |-> "hs_cache", status |-> 0, jti |-> t.jti, sub |-> t.sub,
   after |-> RevokedBy(t.jti), hit |-> FALSE, userID |-> None, sessionPK |-> None,
   passed |-> FALSE, newPassword |-> None, prior |-> {}, deleted |-> None]

\* The request is over: a response with this status was sent (0: none was).
\* What is kept of a request behind hasSession is its jti, whether it was found
\* in the cache, whether it passed the middleware, and which acknowledged
\* revocations of its token preceded it.
Respond(w, status) ==
  IF req[w].kind \in SessionKinds
    THEN [kind |-> req[w].kind, pc |-> "done", status |-> status,
          jti |-> req[w].jti, hit |-> req[w].hit,
          passed |-> req[w].passed, after |-> req[w].after]
    ELSE Done(req[w].kind, status)

\* GET on a session-protected route.
StartProtected(w) ==
  /\ Free(w)
  /\ started < MaxRequests
  /\ \E t \in issued : req' = [req EXCEPT ![w] = SessionRequest("protected", t)]
  /\ started' = started + 1
  /\ UNCHANGED <<users, nextUUID, forgotAttempts, edgeVars, sessionVars, otpVars>>

\* POST /auth/logout.
StartLogout(w) ==
  /\ Free(w)
  /\ started < MaxRequests
  /\ \E t \in issued : req' = [req EXCEPT ![w] = SessionRequest("logout", t)]
  /\ started' = started + 1
  /\ UNCHANGED <<users, nextUUID, forgotAttempts, edgeVars, sessionVars, otpVars>>

\* PATCH /auth/update-password.
StartUpdatePassword(w) ==
  /\ Free(w)
  /\ started < MaxRequests
  /\ \E t \in issued : req' = [req EXCEPT ![w] = SessionRequest("updatePassword", t)]
  /\ started' = started + 1
  /\ UNCHANGED <<users, nextUUID, forgotAttempts, edgeVars, sessionVars, otpVars>>

\* verifySessionJwt accepts the token (it was signed by login and has not
\* expired); sessionID = req.auth.jti; CacheService.getUserIDFromSession.
HasSessionCache_IgnoresMiss(w) ==
  /\ req[w].pc = "hs_cache"
  /\ req' = [req EXCEPT ![w] =
       [req[w] EXCEPT !.pc = "hs_db", !.hit = req[w].jti \in DOMAIN sessionCache,
                      !.userID = req[w].sub]]
  /\ UNCHANGED <<users, nextUUID, forgotAttempts, edgeVars, started, sessionVars, otpVars>>

HasSessionCache(w) ==
  /\ req[w].pc = "hs_cache"
  /\ LET userID == getUserIDFromSession(req[w].jti) IN
       req' = [req EXCEPT ![w] =
         IF userID = None
           THEN Respond(w, 401)
           ELSE [req[w] EXCEPT !.pc = "hs_db", !.userID = userID,
                               !.hit = req[w].jti \in DOMAIN sessionCache]]
  /\ UNCHANGED <<users, nextUUID, forgotAttempts, edgeVars, started, sessionVars, otpVars>>

\* SessionService.getSession({ sessionID }).
HasSessionDb(w) ==
  /\ req[w].pc = "hs_db"
  /\ LET session == getSession(req[w].jti) IN
       req' = [req EXCEPT ![w] =
         IF session = {}
           THEN [req[w] EXCEPT !.pc = "hs_purge"]
           ELSE [req[w] EXCEPT !.pc = "hs_user",
                               !.sessionPK = (CHOOSE r \in session : TRUE).sessionPK]]
  /\ UNCHANGED <<users, nextUUID, forgotAttempts, edgeVars, started, sessionVars, otpVars>>

\* No row: the 401 without the CacheService.deleteSession call.
HasSessionPurge_KeepsEntry(w) ==
  /\ req[w].pc = "hs_purge"
  /\ req' = [req EXCEPT ![w] = Respond(w, 401)]
  /\ UNCHANGED <<users, nextUUID, forgotAttempts, edgeVars, started, sessionVars, otpVars>>

\* No row: CacheService.deleteSession(sessionID), then 401.
HasSessionPurge(w) ==
  /\ req[w].pc = "hs_purge"
  /\ sessionCache' = cacheDeleteSession(sessionCache, req[w].jti)
  /\ req' = [req EXCEPT ![w] = Respond(w, 401)]
  /\ UNCHANGED <<users, nextUUID, forgotAttempts, edgeVars, started, sessionTable,
                 nextSessionPK, issued, revoked, lastWriter, otpVars>>

\* UserService.getUserComplete({ userID }) and the isActive check.
HasSessionUser(w) ==
  /\ req[w].pc = "hs_user"
  /\ req' = [req EXCEPT ![w] =
       IF req[w].userID \notin Users THEN Respond(w, 400)
       ELSE IF ~users[req[w].userID].isActive THEN Respond(w, 403)
       ELSE [req[w] EXCEPT !.pc = "hs_update"]]
  /\ UNCHANGED <<users, nextUUID, forgotAttempts, edgeVars, started, sessionVars, otpVars>>

\* The controller the route continues with after next().
Controller(kind) ==
  CASE kind = "logout" -> "del_db"
    [] kind = "updatePassword" -> "up_user"
    [] kind = "deleteMySession" -> "dm_sessions"

\* SessionService.updateSession({ sessionID }, sessionData): prisma.session.update
\* rejects when the row is gone; the rejection is raised inside the callback
\* given to verifySessionJwt, which nobody awaits, so no response is sent
\* (status 0). Otherwise req.session is set and next() is called.
HasSessionUpdate(w) ==
  /\ req[w].pc = "hs_update"
  /\ req' = [req EXCEPT ![w] =
       IF RowsBySessionID(req[w].jti) = {}
         THEN Respond(w, 0)
         ELSE IF req[w].kind = "protected"
           THEN [kind |-> "protected", pc |-> "done", status |-> 200,
                 jti |-> req[w].jti, hit |-> req[w].hit,
                 passed |-> TRUE, after |-> req[w].after]
           ELSE [req[w] EXCEPT !.passed = TRUE, !.pc = Controller(req[w].kind)]]
  /\ UNCHANGED <<users, nextUUID, forgotAttempts, edgeVars, started, sessionVars, otpVars>>

\* ------------------------------------------------- SessionService.deleteSession
\* logout and deleteMySession call deleteSession({ sessionPK }) with
\* req.session.sessionPK, updatePassword calls deleteSession({ userPK: user.userPK }).
DeleteWhere(w) ==
  IF req[w].kind \in {"logout", "deleteMySession"}
    THEN RowsBySessionPK(req[w].sessionPK)
    ELSE RowsByUserPK(req[w].userID)

\* The token of the request (logout), the tokens issued to the user before
\* the password was written (updatePassword, resetPassword).
Acknowledged(w) ==
  IF req[w].kind = "logout"
    THEN {[jti |-> req[w].jti, by |-> "logout"]}
    ELSE {[jti |-> j, by |-> req[w].kind] : j \in req[w].prior}

\* The handler answers 200 at once: the deletion is not awaited.
DeleteSessionDb_NotAwaited(w) ==
  /\ req[w].pc = "del_db"
  /\ req' = [req EXCEPT ![w] = Respond(w, 200)]
  /\ revoked' = revoked \cup Acknowledged(w)
  /\ UNCHANGED <<users, nextUUID, forgotAttempts, edgeVars, started, sessionTable,
                 nextSessionPK, sessionCache, issued, lastWriter, otpVars>>

\* prisma.session.delete({ where }): rejects when no row matches. logout is
\* registered without asyncHandler, so its rejection sends no response
\* (status 0); updatePassword's reaches the error handler as a Prisma error (400).
DeleteSessionDb(w) ==
  /\ req[w].pc = "del_db"
  /\ LET rows == DeleteWhere(w) IN
       IF rows = {}
         THEN /\ req' = [req EXCEPT ![w] =
                   Respond(w, IF req[w].kind = "logout" THEN 0 ELSE 400)]
              /\ UNCHANGED <<sessionTable, lastWriter>>
         ELSE /\ sessionTable' = sessionTable \ rows
              /\ lastWriter' = [u \in Users |->
                   IF \E r \in rows : r.userPK = UserPK(u) THEN None ELSE lastWriter[u]]
              /\ req' = [req EXCEPT ![w] =
                   [req[w] EXCEPT !.pc = "del_cache",
                                  !.deleted = (CHOOSE r \in rows : TRUE).sessionID]]
  /\ UNCHANGED <<users, nextUUID, forgotAttempts, edgeVars, started, nextSessionPK,
                 sessionCache, issued, revoked, otpVars>>

\* CacheService.deleteSession(sessionDeleted.sessionID); the handler then
\* sends its 200 response.
DeleteSessionCache(w) ==
  /\ req[w].pc = "del_cache"
  /\ sessionCache' = cacheDeleteSession(sessionCache, req[w].deleted)
  /\ req' = [req EXCEPT ![w] =
       Respond(w, IF req[w].kind = "deleteMySession" THEN 204 ELSE 200)]
  /\ revoked' = revoked \cup Acknowledged(w)
  /\ UNCHANGED <<users, nextUUID, forgotAttempts, edgeVars, started, sessionTable,
                 nextSessionPK, issued, lastWriter, otpVars>>

\* ------------------------------------------------------------ updatePassword
\* getUserComplete({ userID }), verifyPassword(user.password, currentPassword),
\* safeCompare(newPassword, confirmPassword).
UpdatePasswordCheck(w) ==
  /\ req[w].pc = "up_user"
  /\ \E cur \in Passwords, new \in Passwords, conf \in Passwords :
       req' = [req EXCEPT ![w] =
         IF ~verifyPassword(users[req[w].userID].password, cur)
           THEN [wrongCurrent |-> TRUE] @@ Respond(w, 401)
         ELSE IF ~safeCompare(new, conf)
           THEN [wrongCurrent |-> FALSE] @@ Respond(w, 401)
         ELSE [req[w] EXCEPT !.pc = "up_write", !.newPassword = new]]
  /\ UNCHANGED <<users, nextUUID, forgotAttempts, edgeVars, started, sessionVars, otpVars>>

\* updatePassword going on to the revocation without the updateUser call.
UpdatePasswordWrite_KeepsOld(w) ==
  /\ req[w].pc = "up_write"
  /\ req' = [req EXCEPT ![w] =
       [req[w] EXCEPT !.pc = "del_db", !.prior = IssuedTo(req[w].userID)]]
  /\ UNCHANGED <<users, nextUUID, forgotAttempts, edgeVars, started, sessionVars, otpVars>>

\* UserService.updateUser({ userID }, { password: newPassword }).
UpdatePasswordWrite(w) ==
  /\ req[w].pc = "up_write"
  /\ users' = [users EXCEPT ![req[w].userID].password = hashPassword(req[w].newPassword)]
  /\ req' = [req EXCEPT ![w] =
       [req[w] EXCEPT !.pc = "del_db", !.prior = IssuedTo(req[w].userID)]]
  /\ UNCHANGED <<nextUUID, forgotAttempts, edgeVars, started, sessionVars, otpVars>>

\* ------------------------------------------------------------ forgotPassword
\* POST /auth/forgot-password. An email and a username are named by the user
\* that owns them; "ghost" is owned by nobody.
StartForgotPassword(w) ==
  /\ Free(w)
  /\ started < MaxRequests
  /\ \E email \in Credentials, username \in Credentials :
       req' = [req EXCEPT ![w] = [kind |-> "forgotPassword", pc |-> "fp_users", status |-> 0,
                                  email |-> email, username |-> username,
                                  userID |-> None, isActive |-> FALSE]]
  /\ started' = started + 1
  /\ UNCHANGED <<users, nextUUID, forgotAttempts, edgeVars, sessionVars, otpVars>>

\* userByUsername = getUserComplete({ email }), userByEmail =
\* getUserComplete({ username }); 404 when one is missing, 401 unless
\* userByUsername.email = email and userByEmail.username = username.
ForgotPasswordFind(w) ==
  /\ req[w].pc = "fp_users"
  /\ LET userByUsername == getUserByCredentials(req[w].email)
         userByEmail == getUserByCredentials(req[w].username)
     IN req' = [req EXCEPT ![w] =
          IF userByUsername = None \/ userByEmail = None THEN Respond(w, 404)
          ELSE IF userByUsername # req[w].email \/ userByEmail # req[w].username
            THEN Respond(w, 401)
          ELSE [req[w] EXCEPT !.pc = "fp_attempts", !.userID = userByUsername,
                              !.isActive = users[userByUsername].isActive]]
  /\ UNCHANGED <<users, nextUUID, forgotAttempts, edgeVars, started, sessionVars, otpVars>>

\* CacheService.getForgotPasswordAttempts: 429 at 2; then 403 for an inactive user.
ForgotPasswordAttempts(w) ==
  /\ req[w].pc = "fp_attempts"
  /\ req' = [req EXCEPT ![w] =
       IF forgotAttempts[req[w].userID] = ForgotPasswordLimit THEN Respond(w, 429)
       ELSE IF ~req[w].isActive THEN Respond(w, 403)
       ELSE [req[w] EXCEPT !.pc = "fp_write"]]
  /\ UNCHANGED <<users, nextUUID, forgotAttempts, edgeVars, started, sessionVars, otpVars>>

\* token = randomBytes(); updateUser({ userID }, { forgotPasswordCode: token }).
ForgotPasswordWrite(w) ==
  /\ req[w].pc = "fp_write"
  /\ nextUUID' = nextUUID + 1
  /\ users' = [users EXCEPT ![req[w].userID].forgotPasswordCode = UUID(nextUUID + 1)]
  /\ req' = [req EXCEPT ![w] = [req[w] EXCEPT !.pc = "fp_mail"]]
  /\ UNCHANGED <<forgotAttempts, edgeVars, started, sessionVars, otpVars>>

\* Email.sendForgotPassword(url), CacheService.setForgotPasswordAttempts, 202.
ForgotPasswordSend(w) ==
  /\ req[w].pc = "fp_mail"
  /\ forgotAttempts' = [forgotAttempts EXCEPT ![req[w].userID] = @ + 1]
  /\ req' = [req EXCEPT ![w] = Respond(w, 202)]
  /\ UNCHANGED <<users, nextUUID, started, edgeVars, sessionVars, otpVars>>

\* ------------------------------------------------------------ resetPassword
\* PATCH /auth/reset-password/:token, with any identifier drawn so far as token.
StartResetPassword(w) ==
  /\ Free(w)
  /\ started < MaxRequests
  /\ \E n \in 1..nextUUID :
       req' = [req EXCEPT ![w] = [kind |-> "resetPassword", pc |-> "rp_user", status |-> 0,
                                  token |-> UUID(n), userID |-> None,
                                  newPassword |-> None, prior |-> {}]]
  /\ started' = started + 1
  /\ UNCHANGED <<users, nextUUID, forgotAttempts, edgeVars, sessionVars, otpVars>>

\* UserService.getUser({ forgotPasswordCode: token }).
getUserByResetToken(token) ==
  IF \E u \in Users : users[u].forgotPasswordCode = token
    THEN CHOOSE u \in Users : users[u].forgotPasswordCode = token
    ELSE None

\* safeCompare(newPassword, confirmPassword), getUser by token, isActive.
ResetPasswordFind(w) ==
  /\ req[w].pc = "rp_user"
  /\ \E new \in Passwords, conf \in Passwords :
       LET user == getUserByResetToken(req[w].token) IN
       req' = [req EXCEPT ![w] =
         IF ~safeCompare(new, conf) THEN Respond(w, 400)
         ELSE IF user = None THEN Respond(w, 404)
         ELSE IF ~users[user].isActive THEN Respond(w, 403)
         ELSE [req[w] EXCEPT !.pc = "rp_write", !.userID = user, !.newPassword = new]]
  /\ UNCHANGED <<users, nextUUID, forgotAttempts, edgeVars, started, sessionVars, otpVars>>

\* updateUser({ userID }, { password: newPassword, forgotPasswordCode: null }).
ResetPasswordWrite(w) ==
  /\ req[w].pc = "rp_write"
  /\ users' = [users EXCEPT ![req[w].userID] =
       [@ EXCEPT !.password = hashPassword(req[w].newPassword),
                 !.forgotPasswordCode = None]]
  /\ req' = [req EXCEPT ![w] =
       [req[w] EXCEPT !.pc = "rp_cache", !.prior = IssuedTo(req[w].userID)]]
  /\ UNCHANGED <<nextUUID, forgotAttempts, edgeVars, started, sessionVars, otpVars>>

\* The handler skips the revocation and answers 200.
ResetPasswordRevoke_Skipped(w) ==
  /\ req[w].pc = "rp_cache"
  /\ req' = [req EXCEPT ![w] = Respond(w, 200)]
  /\ revoked' = revoked \cup Acknowledged(w)
  /\ UNCHANGED <<users, nextUUID, forgotAttempts, edgeVars, started, sessionTable,
                 nextSessionPK, sessionCache, issued, lastWriter, otpVars>>

\* CacheService.deleteUserSessions(user.userID), Email.sendResetPassword(), 200.
ResetPasswordRevoke(w) ==
  /\ req[w].pc = "rp_cache"
  /\ sessionCache' = deleteUserSessions(sessionCache, req[w].userID)
  /\ req' = [req EXCEPT ![w] = Respond(w, 200)]
  /\ revoked' = revoked \cup Acknowledged(w)
  /\ UNCHANGED <<users, nextUUID, forgotAttempts, edgeVars, started, sessionTable,
                 nextSessionPK, issued, lastWriter, otpVars>>

\* ------------------------------------------------------------ verifyOTP
\* The code that generate(secret) yields in a time-step, and a code that no
\* secret yields.
TOTP(secret, step) == [secret |-> secret, step |-> step]
WrongCode == [secret |-> -1, step |-> 0]

\* validateDefaultTOTP(code, secret): the code is the one of the current or
\* of an adjacent time-step.
validateDefaultTOTP(code, secret, now) ==
  code.secret = secret /\ code.step \in {now - 1, now, now + 1}

\* CacheService.getBlacklistedOTP(userID, code).
getBlacklistedOTP(u, code) ==
  \E e \in otpBlacklist : e.userID = u /\ e.code = code

\* CacheService.blacklistOTP(userID, code): the entry lasts for the rest of
\* the time-step at least.
blacklistOTP(blacklist, u, code, now) ==
  blacklist \cup {[userID |-> u, code |-> code, step |-> now]}

\* CacheService.getOTPAttempts(userID): the counter, 0 when the key is absent.
getOTPAttempts(u) == otpAttempts[u]

\* CacheService.setOTPAttempts(userID): atomic increment of the counter.
setOTPAttempts(attempts, u) == [attempts EXCEPT ![u] = @ + 1]

\* The codes a client can present for u: the code of a time-step up to the
\* current one, or a wrong code.
Presentable(u) ==
  {WrongCode} \cup
    (IF u \in Users THEN {TOTP(users[u].totpSecret, s) : s \in 0..clock} ELSE {})

\* Another request for u is being handled.
InFlightFor(w, u) ==
  \E v \in Workers \ {w} :
    req[v].kind = "verifyOTP" /\ req[v].pc # "done" /\ req[v].userID = u

\* The userIDs that SpecOTP's requests name: one user, and an ID of nobody.
OtpClients == {"alice", "ghost"}

RespondOTP(w, status) == [req[w] EXCEPT !.pc = "done", !.status = status]

\* PUT /auth/otp with `Authorization: Basic userID:code`, hasSession having
\* passed the request on to AuthController.verifyOTP. The request keeps,
\* as history, the failures counted for the user when it started, whether it
\* was then the only request for the user, and whether its code was then in
\* the blacklist since the current time-step.
VerifyOtpRequest(w, u, code) ==
  [kind |-> "verifyOTP", pc |-> "vo_user", status |-> 0,
   userID |-> u, code |-> code, secret |-> -1, attempts |-> -1,
   startStep |-> clock, decidedStep |-> -1,
   strikesAtStart |-> IF u \in Users THEN otpLog[u].failed ELSE 0,
   alone |-> ~InFlightFor(w, u),
   replay |-> \E e \in otpBlacklist :
                e.userID = u /\ e.code = code /\ e.step = clock,
   expired |-> FALSE, compared |-> FALSE, jti |-> None]

StartVerifyOTP(w) ==
  /\ Free(w)
  /\ started < MaxOtpRequests
  /\ \E u \in OtpClients : \E code \in Presentable(u) :
       req' = [req EXCEPT ![w] = VerifyOtpRequest(w, u, code)]
  /\ started' = started + 1
  /\ UNCHANGED <<users, nextUUID, forgotAttempts, edgeVars, sessionVars, otpVars>>

\* UserService.getUserComplete({ userID: username }): 404 for an unknown user.
VerifyOtpUser(w) ==
  /\ req[w].pc = "vo_user"
  /\ req' = [req EXCEPT ![w] =
       IF req[w].userID \notin Users
         THEN RespondOTP(w, 404)
         ELSE [req[w] EXCEPT !.pc = "vo_attempts",
                             !.secret = users[req[w].userID].totpSecret]]
  /\ UNCHANGED <<users, nextUUID, forgotAttempts, edgeVars, started, sessionVars, otpVars>>

\* The lockout check is left out.
VerifyOtpAttempts_NoLockout(w) ==
  /\ req[w].pc = "vo_attempts"
  /\ req' = [req EXCEPT ![w] =
       [req[w] EXCEPT !.attempts = getOTPAttempts(req[w].userID), !.pc = "vo_used"]]
  /\ UNCHANGED <<users, nextUUID, forgotAttempts, edgeVars, started, sessionVars, otpVars>>

\* CacheService.getOTPAttempts(user.userID) and `parseInt(attempts) === 3`.
VerifyOtpAttempts(w) ==
  /\ req[w].pc = "vo_attempts"
  /\ LET attempts == getOTPAttempts(req[w].userID) IN
       req' = [req EXCEPT ![w] =
         IF attempts = OtpAttemptLimit
           THEN [req[w] EXCEPT !.attempts = attempts, !.pc = "vo_alert",
                               !.decidedStep = clock]
           ELSE [req[w] EXCEPT !.attempts = attempts, !.pc = "vo_used"]]
  /\ UNCHANGED <<users, nextUUID, forgotAttempts, edgeVars, started, sessionVars, otpVars>>

\* CacheService.getSecurityAlertEmailLock(user.userID): 429 when it is set.
VerifyOtpAlertLock(w) ==
  /\ req[w].pc = "vo_alert"
  /\ req' = [req EXCEPT ![w] =
       IF req[w].userID \in alertLock
         THEN RespondOTP(w, 429)
         ELSE [req[w] EXCEPT !.pc = "vo_alert_set"]]
  /\ UNCHANGED <<users, nextUUID, forgotAttempts, edgeVars, started, sessionVars, otpVars>>

\* CacheService.setSecurityAlertEmailLock(user.userID).
VerifyOtpAlertSet(w) ==
  /\ req[w].pc = "vo_alert_set"
  /\ alertLock' = alertLock \cup {req[w].userID}
  /\ req' = [req EXCEPT ![w] = [req[w] EXCEPT !.pc = "vo_alert_mail"]]
  /\ UNCHANGED <<users, nextUUID, forgotAttempts, edgeVars, started, sessionVars,
                 otpAttempts, otpBlacklist, otpSessions, alerts, clock, otpLog>>

\* new Email(...).sendNotification(), then the 429.
VerifyOtpAlertMail(w) ==
  /\ req[w].pc = "vo_alert_mail"
  /\ alerts' = [alerts EXCEPT ![req[w].userID] = @ + 1]
  /\ otpLog' = [otpLog EXCEPT ![req[w].userID].notified = @ + 1]
  /\ req' = [req EXCEPT ![w] = RespondOTP(w, 429)]
  /\ UNCHANGED <<users, nextUUID, forgotAttempts, edgeVars, started, sessionVars,
                 otpAttempts, otpBlacklist, otpSessions, alertLock, clock>>

\* The blacklist is not consulted.
VerifyOtpValidate_SkipsBlacklist(w) ==
  /\ req[w].pc = "vo_used"
  /\ req' = [req EXCEPT ![w] =
       IF ~validateDefaultTOTP(req[w].code, req[w].secret, clock)
         THEN [req[w] EXCEPT !.pc = "vo_strike", !.status = 401,
                             !.compared = TRUE, !.decidedStep = clock]
         ELSE [req[w] EXCEPT !.pc = "vo_blacklist",
                             !.compared = TRUE, !.decidedStep = clock]]
  /\ UNCHANGED <<users, nextUUID, forgotAttempts, edgeVars, started, sessionVars, otpVars>>

\* CacheService.getBlacklistedOTP(user.userID, password): 410 for a used
\* code; otherwise validateDefaultTOTP(password, user.totpSecret): 401 for a
\* wrong code. Both failures go on to count a strike.
VerifyOtpValidate(w) ==
  /\ req[w].pc = "vo_used"
  /\ LET usedOTP == getBlacklistedOTP(req[w].userID, req[w].code) IN
       req' = [req EXCEPT ![w] =
         IF usedOTP
           THEN [req[w] EXCEPT !.pc = "vo_strike", !.status = 410,
                               !.decidedStep = clock]
         ELSE IF ~validateDefaultTOTP(req[w].code, req[w].secret, clock)
           THEN [req[w] EXCEPT !.pc = "vo_strike", !.status = 401,
                               !.compared = TRUE, !.decidedStep = clock]
         ELSE [req[w] EXCEPT !.pc = "vo_blacklist",
                             !.compared = TRUE, !.decidedStep = clock]]
  /\ UNCHANGED <<users, nextUUID, forgotAttempts, edgeVars, started, sessionVars, otpVars>>

\* CacheService.setOTPAttempts(user.userID), then the 410 or the 401.
VerifyOtpStrike(w) ==
  /\ req[w].pc = "vo_strike"
  /\ otpAttempts' = setOTPAttempts(otpAttempts, req[w].userID)
  /\ otpLog' = [otpLog EXCEPT ![req[w].userID].failed = @ + 1]
  /\ req' = [req EXCEPT ![w] = RespondOTP(w, req[w].status)]
  /\ UNCHANGED <<users, nextUUID, forgotAttempts, edgeVars, started, sessionVars,
                 otpBlacklist, otpSessions, alertLock, alerts, clock>>

\* CacheService.blacklistOTP(user.userID, password).
VerifyOtpBlacklist(w) ==
  /\ req[w].pc = "vo_blacklist"
  /\ otpBlacklist' = blacklistOTP(otpBlacklist, req[w].userID, req[w].code, clock)
  /\ otpLog' = [otpLog EXCEPT ![req[w].userID].accepted = @ \cup {req[w].code}]
  /\ req' = [req EXCEPT ![w] = [req[w] EXCEPT !.pc = "vo_session"]]
  /\ UNCHANGED <<users, nextUUID, forgotAttempts, edgeVars, started, sessionVars,
                 otpAttempts, otpSessions, alertLock, alerts, clock>>

\* The success path clearing the subject's attempt counter.
VerifyOtpSession_ResetsAttempts(w) ==
  /\ req[w].pc = "vo_session"
  /\ LET jti == UUID(nextUUID + 1) IN
       /\ nextUUID' = nextUUID + 1
       /\ otpSessions' = Put(otpSessions, jti, req[w].userID)
       /\ otpAttempts' = [otpAttempts EXCEPT ![req[w].userID] = 0]
       /\ otpLog' = [otpLog EXCEPT ![req[w].userID].tokens =
            @ \cup {[jti |-> jti, code |-> req[w].code, step |-> req[w].decidedStep]}]
       /\ req' = [req EXCEPT ![w] = [req[w] EXCEPT !.pc = "done", !.status = 200,
                                                   !.jti = jti]]
  /\ UNCHANGED <<users, forgotAttempts, edgeVars, started, sessionVars,
                 otpBlacklist, alertLock, alerts, clock>>

\* jti = nanoid(), signEdDSAJWT(jti, user.userID, 15),
\* CacheService.setOTPSession(jti, user.userID), then the 200 with the token.
VerifyOtpSession(w) ==
  /\ req[w].pc = "vo_session"
  /\ LET jti == UUID(nextUUID + 1) IN
       /\ nextUUID' = nextUUID + 1
       /\ otpSessions' = Put(otpSessions, jti, req[w].userID)
       /\ otpLog' = [otpLog EXCEPT ![req[w].userID].tokens =
            @ \cup {[jti |-> jti, code |-> req[w].code, step |-> req[w].decidedStep]}]
       /\ req' = [req EXCEPT ![w] = [req[w] EXCEPT !.pc = "done", !.status = 200,
                                                   !.jti = jti]]
  /\ UNCHANGED <<users, forgotAttempts, edgeVars, started, sessionVars,
                 otpAttempts, otpBlacklist, alertLock, alerts, clock>>

\* The next 30-second time-step begins.
Tick ==
  /\ clock < MaxStep
  /\ clock' = clock + 1
  /\ UNCHANGED <<users, nextUUID, forgotAttempts, edgeVars, req, started, sessionVars,
                 otpAttempts, otpBlacklist, otpSessions, alertLock, alerts, otpLog>>

\* A blacklist entry expires, its time-step being over.
BlacklistExpire ==
  /\ \E e \in otpBlacklist :
       /\ e.step < clock
       /\ otpBlacklist' = otpBlacklist \ {e}
  /\ UNCHANGED <<users, nextUUID, forgotAttempts, edgeVars, req, started, sessionVars,
                 otpAttempts, otpSessions, alertLock, alerts, clock, otpLog>>

\* The window of u's attempt counter expires: the key is gone. The requests
\* for u that are being handled are marked as having seen the window expire.
WindowExpire ==
  /\ \E u \in Users :
       /\ otpAttempts[u] > 0
       /\ otpAttempts' = [otpAttempts EXCEPT ![u] = 0]
       /\ otpLog' = [otpLog EXCEPT ![u].failed = 0, ![u].notified = 0]
       /\ req' = [w \in Workers |->
            IF req[w].kind = "verifyOTP" /\ req[w].pc # "done" /\ req[w].userID = u
              THEN [req[w] EXCEPT !.expired = TRUE]
              ELSE req[w]]
  /\ UNCHANGED <<users, nextUUID, forgotAttempts, edgeVars, started, sessionVars,
                 otpBlacklist, otpSessions, alertLock, alerts, clock>>

\* ------------------------------------------------------------ updateMFA
\* The users whose secret SpecMFA's requests rotate.
MfaClients == {"alice"}

\* nanoid(): a secret that no user had before.
nanoid(n) == n + 1

\* PATCH /auth/update-mfa, hasSession and hasJWT having passed the request on
\* to AuthController.updateMFA with req.session.userID = u.
StartUpdateMFA(w) ==
  /\ Free(w)
  /\ started < MaxOtpRequests
  /\ \E u \in MfaClients :
       req' = [req EXCEPT ![w] = [kind |-> "updateMFA", pc |-> "mfa_user", status |-> 0,
                                  userID |-> u]]
  /\ started' = started + 1
  /\ UNCHANGED <<users, nextUUID, forgotAttempts, edgeVars, sessionVars, otpVars>>

\* UserService.getUserComplete({ userID }): 404 when there is no such user.
UpdateMfaUser(w) ==
  /\ req[w].pc = "mfa_user"
  /\ req' = [req EXCEPT ![w] =
       IF req[w].userID \notin Users
         THEN Done("updateMFA", 404)
         ELSE [req[w] EXCEPT !.pc = "mfa_write"]]
  /\ UNCHANGED <<users, nextUUID, forgotAttempts, edgeVars, started, sessionVars, otpVars>>

\* newSecret = nanoid(), UserService.updateUser({ userID }, { totpSecret }), 200.
UpdateMfaWrite(w) ==
  /\ req[w].pc = "mfa_write"
  /\ users' = [users EXCEPT ![req[w].userID].totpSecret = nanoid(nextUUID)]
  /\ nextUUID' = nextUUID + 1
  /\ req' = [req EXCEPT ![w] = Done("updateMFA", 200)]
  /\ UNCHANGED <<forgotAttempts, edgeVars, started, sessionVars, otpVars>>

\* ------------------------------------------------------------ signHS256JWT
\* The rest of the state, which the actions below leave alone.
appVars == <<users, nextUUID, forgotAttempts, sessionVars, otpVars>>

\* The expiration times in minutes that the callers pass.
Expirations == {1, OtpTokenTtlMinutes}
\* The session IDs that the callers pass.
Jtis == {UUID(1), UUID(2)}

\* Math.floor(Date.now() / 1000).
Seconds(ms) == ms \div 1000

\* signHS256JWT(jti, sub, expiration) is called.
StartSign(w) ==
  /\ Free(w)
  /\ started < MaxSigns
  /\ \E jti \in Jtis, sub \in Users, expiration \in Expirations :
       req' = [req EXCEPT ![w] =
         [kind |-> "sign", pc |-> "jwt_exp", jti |-> jti, sub |-> sub,
          expiration |-> expiration,
          payload |-> [exp |-> -1, iat |-> -1, jti |-> None, nbf |-> -1, sub |-> None]]]
  /\ started' = started + 1
  /\ UNCHANGED <<appVars, edgeVars>>

\* exp: Math.floor(Date.now() / 1000) + expiration * 60.
SignExp(w) ==
  /\ req[w].pc = "jwt_exp"
  /\ req' = [req EXCEPT ![w] =
       [req[w] EXCEPT !.pc = "jwt_iat",
                      !.payload.exp = Seconds(dateNow) + req[w].expiration * 60]]
  /\ UNCHANGED <<appVars, edgeVars, started>>

\* iat: Math.floor(Date.now() / 1000); jti.
SignIat(w) ==
  /\ req[w].pc = "jwt_iat"
  /\ req' = [req EXCEPT ![w] =
       [req[w] EXCEPT !.pc = "jwt_nbf",
                      !.payload.iat = Seconds(dateNow),
                      !.payload.jti = req[w].jti]]
  /\ UNCHANGED <<appVars, edgeVars, started>>

\* nbf: Math.floor(Date.now() / 1000); sub; the payload is signed.
SignNbf(w) ==
  /\ req[w].pc = "jwt_nbf"
  /\ req' = [req EXCEPT ![w] =
       [req[w] EXCEPT !.pc = "done",
                      !.payload.nbf = Seconds(dateNow),
                      !.payload.sub = req[w].sub]]
  /\ UNCHANGED <<appVars, edgeVars, started>>

\* A millisecond passes.
ClockMs ==
  /\ dateNow < LastNow
  /\ dateNow' = dateNow + 1
  /\ UNCHANGED <<appVars, hits, hasAskedOTP, req, started>>

\* ------------------------------------------------------------ errorHandler
\* An error object: its class (what `instanceof` tells), its `name`, its
\* `type`, whether it is an Error at all, its message (a sequence of pieces),
\* for a ZodError its issues and, for an AppError, its statusCode.
ErrorOf(class, name, type, message) ==
  [isError |-> TRUE, class |-> class, name |-> name, type |-> type,
   message |-> message, issues |-> <<>>, statusCode |-> 0]

\* new AppError(message, statusCode).
AppError(message, statusCode) ==
  [isError |-> TRUE, class |-> "AppError", name |-> "AppError", type |-> None,
   message |-> <<message>>, issues |-> <<>>, statusCode |-> statusCode]

PrismaErrors == {"PrismaClientKnownRequestError", "PrismaClientUnknownRequestError",
                 "PrismaClientInitializationError", "PrismaClientValidationError"}
JoseErrors == {"JWTClaimValidationFailed", "JWSInvalid",
               "JWSSignatureVerificationFailed", "JWTExpired"}

\* formatZodError(error): `${path}: ${message}` of the first issue.
formatZodError(err) ==
  IF Len(err.issues) > 0
    THEN <<err.issues[1].path, ": ", err.issues[1].message>>
    ELSE <<"Unknown zod validation error">>

\* handleOperationalErrors(err).
handleOperationalErrors(err) ==
  IF err.class = "SyntaxError"
    THEN AppError("Invalid JSON! Please insert a valid one.", 400)
  ELSE IF err.type = "entity.too.large"
    THEN AppError("Request too large! Please reduce your payload!", 413)
  ELSE IF err.class \in PrismaErrors
    THEN AppError("Your request violates the constraints of the database. Please insert another data!", 400)
  ELSE IF err.class = "ZodError"
    THEN [AppError("", 400) EXCEPT !.message = formatZodError(err)]
  ELSE IF err.class \in JoseErrors
    THEN AppError("Failed to verify the integrity of the token.", 401)
  ELSE IF err.name = "UnauthorizedError"
    THEN AppError("Failed to verify the integrity of the token.", 401)
  ELSE AppError("Internal server error!", 500)

\* errorHandler(err, req, res, next): the AppError whose message and
\* statusCode sendErrorResponse sends.
errorHandler(err) ==
  IF err.class = "AppError" THEN err
  ELSE IF err.isError THEN handleOperationalErrors(err)
  ELSE AppError("Unknown error! Please try again later!", 500)

\* ------------------------------------------------------------ errors raised
\* new ZodError(issues).
ZodErrorOf(issues) ==
  [ErrorOf("ZodError", "ZodError", None, <<"zod">>) EXCEPT !.issues = issues]

\* What is thrown, or passed to next, while a request is handled: an
\* AppError of a handler, the errors of the body parser, of Prisma, of zod,
\* of jose and of express-jwt, a fault of the cache driver, and a value that
\* is no Error.
Thrown ==
  {AppError("There is no user with that ID.", 404),
   ErrorOf("SyntaxError", "SyntaxError", "entity.parse.failed", <<"Unexpected token } in JSON">>),
   ErrorOf("PayloadTooLargeError", "PayloadTooLargeError", "entity.too.large",
           <<"request entity too large">>),
   ErrorOf("PrismaClientKnownRequestError", "PrismaClientKnownRequestError", None,
           <<"Record to update not found.">>),
   ErrorOf("PrismaClientInitializationError", "PrismaClientInitializationError", None,
           <<"Can't reach database server">>),
   ZodErrorOf(<<[path |-> "body.username", message |-> "Required"]>>),
   ZodErrorOf(<<>>),
   ErrorOf("JWTExpired", "JWTExpired", None, <<"\"exp\" claim timestamp check failed">>),
   ErrorOf("UnauthorizedError", "UnauthorizedError", None, <<"jwt malformed">>),
   ErrorOf("ReplyError", "ReplyError", None, <<"connect ECONNREFUSED 127.0.0.1:6379">>),
   [ErrorOf("string", None, None, <<"thrown string">>) EXCEPT !.isError = FALSE]}

\* Where it is raised: in a handler that asyncHandler wraps or that passes it
\* to next, or after an await of the callback that hasSession gives to
\* verifySessionJwt.
RaisedIn == {"handler", "callback"}

\* A request whose handling raises an error.
StartFailing(w) ==
  /\ Free(w)
  /\ started < MaxFailing
  /\ \E err \in Thrown, place \in RaisedIn :
       req' = [req EXCEPT ![w] = [kind |-> "failing", pc |-> "raised", status |-> 0,
                                  err |-> err, place |-> place,
                                  responses |-> 0, sent |-> AppError("", 0)]]
  /\ started' = started + 1
  /\ UNCHANGED <<appVars, edgeVars>>

\* asyncHandler catches the rejection and calls next(err); errorHandler sends
\* the response.
ErrorHandled(w) ==
  /\ req[w].pc = "raised" /\ req[w].place = "handler"
  /\ req' = [req EXCEPT ![w] =
       [req[w] EXCEPT !.pc = "done", !.status = errorHandler(req[w].err).statusCode,
                      !.responses = @ + 1, !.sent = errorHandler(req[w].err)]]
  /\ UNCHANGED <<appVars, edgeVars, started>>

\* The promise of hasSession's callback rejects; verifySessionJwt does not
\* await it and asyncHandler awaits hasSession only: no response is sent.
CallbackRejects(w) ==
  /\ req[w].pc = "raised" /\ req[w].place = "callback"
  /\ req' = [req EXCEPT ![w] = [req[w] EXCEPT !.pc = "done"]]
  /\ UNCHANGED <<appVars, edgeVars, started>>

\* ------------------------------------------------------------ cache faults
\* A fault of the cache driver, as the awaited call rejects with it.
CacheFault ==
  ErrorOf("ReplyError", "ReplyError", None, <<"connect ECONNREFUSED 127.0.0.1:6379">>)

\* createOrUpdateSession: CacheService.setSession rejects after the upsert;
\* login, wrapped in asyncHandler, ends in errorHandler. Nothing undoes the upsert.
LoginSetCacheFails(w) ==
  /\ req[w].pc = "lg_cache"
  /\ req' = [req EXCEPT ![w] =
       [kind |-> "login", pc |-> "done", status |-> errorHandler(CacheFault).statusCode,
        overlapped |-> req[w].overlapped, failedID |-> req[w].sessionID]]
  /\ UNCHANGED <<users, nextUUID, forgotAttempts, edgeVars, started, sessionVars, otpVars>>

\* deleteSession: CacheService.deleteSession rejects after prisma.session.delete;
\* logout is registered without asyncHandler and sends no response (status 0),
\* updatePassword ends in errorHandler. Nothing undoes the delete.
DeleteSessionCacheFails(w) ==
  /\ req[w].pc = "del_cache"
  /\ req' = [req EXCEPT ![w] =
       [failedID |-> req[w].deleted] @@
         Respond(w, IF req[w].kind = "logout" THEN 0
                    ELSE errorHandler(CacheFault).statusCode)]
  /\ UNCHANGED <<users, nextUUID, forgotAttempts, edgeVars, started, sessionVars, otpVars>>

\* ------------------------------------------------------------ register
\* POST /auth/register with a username (and email) and a password.
StartRegister(w) ==
  /\ Free(w)
  /\ started < MaxRequests
  /\ \E u \in Users, pw \in Passwords :
       req' = [req EXCEPT ![w] = [kind |-> "register", pc |-> "rg_find", status |-> 0,
                                  username |-> u, password |-> pw]]
  /\ started' = started + 1
  /\ UNCHANGED <<users, nextUUID, forgotAttempts, edgeVars, sessionVars, otpVars>>

\* getUser by username, email and phone number: 422 when one of them is taken.
RegisterFind(w) ==
  /\ req[w].pc = "rg_find"
  /\ req' = [req EXCEPT ![w] =
       IF req[w].username \in DOMAIN users
         THEN Done("register", 422)
         ELSE [req[w] EXCEPT !.pc = "rg_create"]]
  /\ UNCHANGED <<users, nextUUID, forgotAttempts, edgeVars, started, sessionVars, otpVars>>

\* confirmationCode = randomBytes(); UserService.createUser({ ..., isActive:
\* false }), which fills totpSecret; 201. The unique constraints of the User
\* table reject a second row for the username (Prisma error, 400).
RegisterCreate(w) ==
  /\ req[w].pc = "rg_create"
  /\ IF req[w].username \in DOMAIN users
       THEN /\ req' = [req EXCEPT ![w] = Done("register", 400)]
            /\ UNCHANGED users
       ELSE /\ users' = Put(users, req[w].username,
                 [password |-> hashPassword(req[w].password), isActive |-> FALSE,
                  forgotPasswordCode |-> None, totpSecret |-> nanoid(nextUUID + 1),
                  confirmationCode |-> UUID(nextUUID + 1)])
            /\ req' = [req EXCEPT ![w] = Done("register", 201)]
  /\ nextUUID' = nextUUID + 2
  /\ UNCHANGED <<forgotAttempts, edgeVars, started, sessionVars, otpVars>>

\* ------------------------------------------------------------ verifyEmail
\* PATCH /auth/verify-email/:code/:email, with any identifier drawn so far as code.
StartVerifyEmail(w) ==
  /\ Free(w)
  /\ started < MaxRequests
  /\ \E email \in Users, n \in 1..nextUUID :
       req' = [req EXCEPT ![w] = [kind |-> "verifyEmail", pc |-> "ve_find", status |-> 0,
                                  email |-> email, code |-> UUID(n)]]
  /\ started' = started + 1
  /\ UNCHANGED <<users, nextUUID, forgotAttempts, edgeVars, sessionVars, otpVars>>

\* getUserComplete({ email }): 400 when there is no user, no confirmationCode
\* or another code.
VerifyEmailFind(w) ==
  /\ req[w].pc = "ve_find"
  /\ req' = [req EXCEPT ![w] =
       IF req[w].email \notin DOMAIN users THEN Done("verifyEmail", 400)
       ELSE IF users[req[w].email].confirmationCode = None THEN Done("verifyEmail", 400)
       ELSE IF req[w].code # users[req[w].email].confirmationCode
         THEN Done("verifyEmail", 400)
       ELSE [req[w] EXCEPT !.pc = "ve_write"]]
  /\ UNCHANGED <<users, nextUUID, forgotAttempts, edgeVars, started, sessionVars, otpVars>>

\* updateUser({ userID }, { isActive: true, email, confirmationCode: null }), 200.
VerifyEmailWrite(w) ==
  /\ req[w].pc = "ve_write"
  /\ users' = [users EXCEPT ![req[w].email] =
       [@ EXCEPT !.isActive = TRUE, !.confirmationCode = None]]
  /\ req' = [req EXCEPT ![w] = Done("verifyEmail", 200)]
  /\ UNCHANGED <<nextUUID, forgotAttempts, edgeVars, started, sessionVars, otpVars>>

\* An admin bans a user: PATCH /users/:id with isActive false.
BanUser ==
  /\ \E u \in DOMAIN users :
       /\ users[u].isActive
       /\ users' = [users EXCEPT ![u].isActive = FALSE]
  /\ UNCHANGED <<nextUUID, forgotAttempts, edgeVars, req, started, sessionVars, otpVars>>

\* ------------------------------------------------------------ routes
\* The middlewares of update-mfa without hasJWT.
Chain_NoJwtOnUpdateMfa(route) ==
  <<"rateLimit", "hasSession", "controller">>

\* The middlewares a request to a route runs through, in the order in which
\* the routers register them (handler.use first, then the route's own list),
\* ending in the controller.
Chain(route) ==
  CASE route = "auth.updateMFA" ->
         <<"rateLimit", "hasSession", "hasJWT", "controller">>
    [] route \in {"attendance.in", "attendance.out"} ->
         <<"hasSession", "rateLimit", "hasJWT", "bodyParser", "validate", "controller">>
    [] route \in {"users.getUsers", "users.getUser", "users.deleteUser"} ->
         <<"hasSession", "rateLimit", "rateLimit", "hasRole", "hasJWT",
           "validate", "controller">>
    [] route \in {"users.createUser", "users.updateUser"} ->
         <<"hasSession", "rateLimit", "rateLimit", "hasRole", "hasJWT",
           "bodyParser", "validate", "controller">>

Routes == {"auth.updateMFA", "attendance.in", "attendance.out", "users.getUsers",
           "users.getUser", "users.deleteUser", "users.createUser", "users.updateUser"}

\* What a middleware answers for a request: 0 when it calls next().
Middleware(name, r) ==
  CASE name = "hasSession" -> IF r.session THEN 0 ELSE 401
    [] name = "hasJWT" -> IF r.otp THEN 0 ELSE 401
    [] name = "hasRole" -> IF r.admin THEN 0 ELSE 403
    [] name = "validate" -> IF r.valid THEN 0 ELSE 400
    [] OTHER -> 0

\* A request to a route that requires an MFA session: it has a valid session
\* or not, a valid otp-authorization token or not, the admin role or not, a
\* valid body or not.
StartRouted(w) ==
  /\ Free(w)
  /\ started < MaxRouted
  /\ \E route \in Routes, session \in BOOLEAN, otp \in BOOLEAN,
        admin \in BOOLEAN, valid \in BOOLEAN :
       req' = [req EXCEPT ![w] =
         [kind |-> "routed", pc |-> "chain", status |-> 0, route |-> route,
          session |-> session, otp |-> otp, admin |-> admin, valid |-> valid,
          at |-> 1, ran |-> <<>>]]
  /\ started' = started + 1
  /\ UNCHANGED <<appVars, edgeVars>>

\* Express runs the next function of the stack: a middleware that calls
\* next() hands over to the one after it, one that answers ends the request;
\* the controller answers.
RunMiddleware(w) ==
  /\ req[w].pc = "chain"
  /\ LET name == Chain(req[w].route)[req[w].at]
         answer == Middleware(name, req[w])
     IN req' = [req EXCEPT ![w] =
          IF name = "controller"
            THEN [req[w] EXCEPT !.pc = "done", !.status = 200,
                                !.ran = Append(@, name)]
          ELSE IF answer = 0
            THEN [req[w] EXCEPT !.at = @ + 1, !.ran = Append(@, name)]
          ELSE [req[w] EXCEPT !.pc = "done", !.status = answer]]
  /\ UNCHANGED <<appVars, edgeVars, started>>

\* ------------------------------------------------------------ verifySessionJwt
\* What may be wrong with the bearer token of a request.
TokenFaults == {"ok", "missing", "expired", "audience", "issuer", "signature"}

\* expressjwt({ algorithms, secret, audience, issuer, onExpired }): the error
\* it hands to its callback. onExpired throws an AppError; a missing token
\* is credentials_required, the other faults are invalid_token.
verifySessionJwt(fault) ==
  CASE fault = "ok" -> None
    [] fault = "expired" ->
         AppError("You are not logged in yet! Please log in first!", 401)
    [] fault = "missing" ->
         ErrorOf("UnauthorizedError", "UnauthorizedError", None,
                 <<"No authorization token was found">>)
    [] OTHER ->
         ErrorOf("UnauthorizedError", "UnauthorizedError", None, <<"jwt ", fault, " invalid">>)

\* A request to a session-protected route, with the token of a session that
\* was issued, unaltered or with a fault.
StartGuarded(w) ==
  /\ Free(w)
  /\ started < MaxRequests
  /\ \E t \in issued, fault \in TokenFaults :
       req' = [req EXCEPT ![w] =
         [fault |-> fault] @@ [SessionRequest("protected", t) EXCEPT !.pc = "hs_jwt"]]
  /\ started' = started + 1
  /\ UNCHANGED <<users, nextUUID, forgotAttempts, edgeVars, sessionVars, otpVars>>

\* The callback goes on to the lookup whatever verifySessionJwt reports.
VerifySessionJwt_IgnoresErr(w) ==
  /\ req[w].pc = "hs_jwt"
  /\ req' = [req EXCEPT ![w] = [req[w] EXCEPT !.pc = "hs_cache"]]
  /\ UNCHANGED <<users, nextUUID, forgotAttempts, edgeVars, started, sessionVars, otpVars>>

\* hasSession: verifySessionJwt(req, res, callback); `if (err) return
\* next(err)`, which ends in errorHandler; else the jti of req.auth.
VerifySessionJwt(w) ==
  /\ req[w].pc = "hs_jwt"
  /\ LET err == verifySessionJwt(req[w].fault) IN
       req' = [req EXCEPT ![w] =
         IF req[w].fault # "ok"
           THEN [fault |-> req[w].fault] @@ Respond(w, errorHandler(err).statusCode)
           ELSE [req[w] EXCEPT !.pc = "hs_cache"]]
  /\ UNCHANGED <<users, nextUUID, forgotAttempts, edgeVars, started, sessionVars, otpVars>>

\* ------------------------------------------------------------ slowDown
\* The caller keys (express-slow-down counts by req.ip).
Keys == {"ip1", "ip2"}

\* delayMs: (used, req) => (used - req.slowDown.limit) * 200, always 200.
delayMs_Flat(used, limit) == 200

\* delayMs: (used, req) => (used - req.slowDown.limit) * 200.
delayMs(used, limit) == (used - limit) * 200

\* express-slow-down: no delay up to delayAfter requests, delayMs beyond
\* (maxDelayMs is left at its default, Infinity).
Delay(used, limit) ==
  IF used > limit
    THEN (IF delayMs(used, limit) > 0 THEN delayMs(used, limit) ELSE 0)
    ELSE 0

\* A request to a route under /api arrives from a caller.
StartThrottled(w) ==
  /\ Free(w)
  /\ started < MaxThrottled
  /\ \E k \in Keys :
       req' = [req EXCEPT ![w] = [kind |-> "throttled", pc |-> "sd_count", status |-> 0,
                                  key |-> k, used |-> 0, delay |-> 0, before |-> hits]]
  /\ started' = started + 1
  /\ UNCHANGED <<appVars, edgeVars>>

\* RedisStore.increment(key) under the prefix 'sd-common:', then the delay
\* for the count it returns.
SlowDownCount(w) ==
  /\ req[w].pc = "sd_count"
  /\ LET old == IF req[w].key \in DOMAIN hits THEN hits[req[w].key] ELSE 0
         used == old + 1
     IN /\ hits' = Put(hits, req[w].key, used)
        /\ req' = [req EXCEPT ![w] =
             [req[w] EXCEPT !.pc = "sd_wait", !.used = used,
                            !.delay = Delay(used, DelayAfter), !.before = hits]]
  /\ UNCHANGED <<appVars, dateNow, hasAskedOTP, started>>

\* setTimeout(() => next(), delay), or next() at once: the request goes on.
SlowDownNext(w) ==
  /\ req[w].pc = "sd_wait"
  /\ req' = [req EXCEPT ![w] = [req[w] EXCEPT !.pc = "done", !.status = 200]]
  /\ UNCHANGED <<appVars, edgeVars, started>>

\* windowMs (15 minutes) after its first request the key of a caller expires.
SlowDownWindow ==
  /\ \E k \in DOMAIN hits : hits' = Del(hits, k)
  /\ UNCHANGED <<appVars, dateNow, hasAskedOTP, req, started>>

\* ------------------------------------------------------------ Spec
Next ==
  \E w \in Workers :
    \/ StartLogin(w)
    \/ LoginFindUser(w)
    \/ LoginUpsert(w)
    \/ LoginSetCache(w)
    \/ StartProtected(w)
    \/ StartLogout(w)
    \/ StartUpdatePassword(w)
    \/ HasSessionCache(w)
    \/ HasSessionDb(w)
    \/ HasSessionPurge(w)
    \/ HasSessionUser(w)
    \/ HasSessionUpdate(w)
    \/ DeleteSessionDb(w)
    \/ DeleteSessionCache(w)
    \/ UpdatePasswordCheck(w)
    \/ UpdatePasswordWrite(w)
    \/ StartForgotPassword(w)
    \/ ForgotPasswordFind(w)
    \/ ForgotPasswordAttempts(w)
    \/ ForgotPasswordWrite(w)
    \/ ForgotPasswordSend(w)
    \/ StartResetPassword(w)
    \/ ResetPasswordFind(w)
    \/ ResetPasswordWrite(w)
    \/ ResetPasswordRevoke(w)

Spec == Init /\ [][Next]_vars

\* The OTP verification handler under concurrent requests, time-steps passing
\* and the stores' keys expiring.
NextOTP ==
  \/ \E w \in Workers :
       \/ StartVerifyOTP(w)
       \/ VerifyOtpUser(w)
       \/ VerifyOtpAttempts(w)
       \/ VerifyOtpAlertLock(w)
       \/ VerifyOtpAlertSet(w)
       \/ VerifyOtpAlertMail(w)
       \/ VerifyOtpValidate(w)
       \/ VerifyOtpStrike(w)
       \/ VerifyOtpBlacklist(w)
       \/ VerifyOtpSession(w)
  \/ Tick
  \/ BlacklistExpire
  \/ WindowExpire

\* SpecOTP starts in any state that alice's failed verifications below the
\* lockout threshold leave behind once they are answered: a counter of 0, 1
\* or 2, and as many failures counted.
InitOTP ==
  /\ users = [u \in Users |-> InitUser]
  /\ sessionTable = {}
  /\ nextSessionPK = 1
  /\ nextUUID = 0
  /\ sessionCache = [k \in {} |-> None]
  /\ forgotAttempts = [u \in Users |-> 0]
  /\ \E k \in 0..(OtpAttemptLimit - 1) :
       otpAttempts = [u \in Users |-> IF u = "alice" THEN k ELSE 0]
  /\ otpBlacklist = {}
  /\ otpSessions = [k \in {} |-> None]
  /\ alertLock = {}
  /\ alerts = [u \in Users |-> 0]
  /\ clock = 0
  /\ req = [w \in Workers |-> Idle]
  /\ started = 0
  /\ issued = {}
  /\ revoked = {}
  /\ lastWriter = [u \in Users |-> None]
  /\ otpLog = [u \in Users |->
       [failed |-> otpAttempts[u], accepted |-> {}, tokens |-> {}, notified |-> 0]]
  /\ dateNow = 0
  /\ hits = [k \in {} |-> 0]
  /\ hasAskedOTP = {}

SpecOTP == InitOTP /\ [][NextOTP]_vars

\* ------------------------------------------------------------ SpecMFA
\* verifyOTP for one user while that user's secret is rotated.
NextMFA ==
  \/ NextOTP
  \/ \E w \in Workers :
       \/ StartUpdateMFA(w)
       \/ UpdateMfaUser(w)
       \/ UpdateMfaWrite(w)

SpecMFA == InitOTP /\ [][NextMFA]_vars

\* ------------------------------------------------------------ SpecJWT
\* signHS256JWT while the wall clock runs.
InitJWT ==
  /\ users = [u \in Users |-> InitUser]
  /\ sessionTable = {}
  /\ nextSessionPK = 1
  /\ nextUUID = 0
  /\ sessionCache = [k \in {} |-> None]
  /\ forgotAttempts = [u \in Users |-> 0]
  /\ otpAttempts = [u \in Users |-> 0]
  /\ otpBlacklist = {}
  /\ otpSessions = [k \in {} |-> None]
  /\ alertLock = {}
  /\ alerts = [u \in Users |-> 0]
  /\ clock = 0
  /\ req = [w \in Workers |-> Idle]
  /\ started = 0
  /\ issued = {}
  /\ revoked = {}
  /\ lastWriter = [u \in Users |-> None]
  /\ otpLog = [u \in Users |-> [failed |-> 0, accepted |-> {}, tokens |-> {}, notified |-> 0]]
  /\ dateNow = FirstNow
  /\ hits = [k \in {} |-> 0]
  /\ hasAskedOTP = {}

NextJWT ==
  \/ \E w \in Workers :
       \/ StartSign(w)
       \/ SignExp(w)
       \/ SignIat(w)
       \/ SignNbf(w)
  \/ ClockMs

SpecJWT == InitJWT /\ [][NextJWT]_vars

\* ------------------------------------------------------------ SpecGuard
\* Logins, and requests to a session-protected route whose token may be
\* faulty, up to the answer of hasSession.
NextGuard ==
  \E w \in Workers :
    \/ StartLogin(w)
    \/ LoginFindUser(w)
    \/ LoginUpsert(w)
    \/ LoginSetCache(w)
    \/ StartGuarded(w)
    \/ VerifySessionJwt(w)
    \/ HasSessionCache(w)
    \/ HasSessionDb(w)
    \/ HasSessionPurge(w)
    \/ HasSessionUser(w)
    \/ HasSessionUpdate(w)

SpecGuard == Init /\ [][NextGuard]_vars

\* ------------------------------------------------------------ SpecSlowDown
\* slowDown(DelayAfter) in front of requests of two callers.
NextSlowDown ==
  \/ \E w \in Workers :
       \/ StartThrottled(w)
       \/ SlowDownCount(w)
       \/ SlowDownNext(w)
  \/ SlowDownWindow

SpecSlowDown == Init /\ [][NextSlowDown]_vars

\* ------------------------------------------------------------ SpecErr
\* Requests whose handling raises an error.
NextErr ==
  \E w \in Workers :
    \/ StartFailing(w)
    \/ ErrorHandled(w)
    \/ CallbackRejects(w)

SpecErr == Init /\ [][NextErr]_vars

\* ------------------------------------------------------------ SpecFail
\* Logins and logouts whose cache write may fail after the database write.
NextFail ==
  \E w \in Workers :
    \/ StartLogin(w)
    \/ LoginFindUser(w)
    \/ LoginUpsert(w)
    \/ LoginSetCache(w)
    \/ LoginSetCacheFails(w)
    \/ StartLogout(w)
    \/ HasSessionCache(w)
    \/ HasSessionDb(w)
    \/ HasSessionPurge(w)
    \/ HasSessionUser(w)
    \/ HasSessionUpdate(w)
    \/ DeleteSessionDb(w)
    \/ DeleteSessionCache(w)
    \/ DeleteSessionCacheFails(w)

SpecFail == Init /\ [][NextFail]_vars

\* ------------------------------------------------------------ SpecActive
\* Registration, email verification and bans, with logins and requests to a
\* session-protected route. One user is registered and verified at the start.
InitActive ==
  /\ users = [u \in {"alice"} |-> InitUser]
  /\ sessionTable = {}
  /\ nextSessionPK = 1
  /\ nextUUID = 0
  /\ sessionCache = [k \in {} |-> None]
  /\ forgotAttempts = [u \in Users |-> 0]
  /\ otpAttempts = [u \in Users |-> 0]
  /\ otpBlacklist = {}
  /\ otpSessions = [k \in {} |-> None]
  /\ alertLock = {}
  /\ alerts = [u \in Users |-> 0]
  /\ clock = 0
  /\ req = [w \in Workers |-> Idle]
  /\ started = 0
  /\ issued = {}
  /\ revoked = {}
  /\ lastWriter = [u \in Users |-> None]
  /\ otpLog = [u \in Users |-> [failed |-> 0, accepted |-> {}, tokens |-> {}, notified |-> 0]]
  /\ dateNow = 0
  /\ hits = [k \in {} |-> 0]
  /\ hasAskedOTP = {}

NextActive ==
  \/ \E w \in Workers :
       \/ StartRegister(w)
       \/ RegisterFind(w)
       \/ RegisterCreate(w)
       \/ StartVerifyEmail(w)
       \/ VerifyEmailFind(w)
       \/ VerifyEmailWrite(w)
       \/ StartLogin(w)
       \/ LoginFindUser(w)
       \/ LoginUpsert(w)
       \/ LoginSetCache(w)
       \/ StartProtected(w)
       \/ HasSessionCache(w)
       \/ HasSessionDb(w)
       \/ HasSessionPurge(w)
       \/ HasSessionUser(w)
       \/ HasSessionUpdate(w)
  \/ BanUser

SpecActive == InitActive /\ [][NextActive]_vars

\* ------------------------------------------------------------ SpecRoutes
\* Requests to the routes that require an MFA session.
NextRoutes ==
  \E w \in Workers :
    \/ StartRouted(w)
    \/ RunMiddleware(w)

SpecRoutes == Init /\ [][NextRoutes]_vars

\* ------------------------------------------------------------ C1
\* C1: hasSession rejects with 401, and never passes on, a request whose
\* token carries a jti that is absent from the cache when it looks it up:
\* the lookup step of such a request ends it with status 401, and every
\* request that is past the lookup found its jti in the cache.
C1_AbsentJtiRejected ==
  /\ [](\A w \in Workers :
         (req[w].kind \in SessionKinds /\ req[w].pc # "hs_cache" /\ ~req[w].hit)
           => (req[w].pc = "done" /\ req[w].status = 401 /\ ~req[w].passed))
  /\ [][\A w \in Workers :
         (/\ req[w].kind \in SessionKinds
          /\ req[w].pc = "hs_cache"
          /\ req'[w] # req[w]
          /\ req[w].jti \notin DOMAIN sessionCache)
           => (req'[w].pc = "done" /\ req'[w].status = 401 /\ ~req'[w].passed)]_vars

\* A token that was issued and whose Session row is still in the database was
\* presented after its jti had left the cache, and was answered 401.
C1_Witness ==
  \E w \in Workers :
    /\ req[w].kind = "protected" /\ req[w].pc = "done"
    /\ ~req[w].hit /\ req[w].status = 401
    /\ req[w].jti \in IssuedTo("alice")
    /\ req[w].jti \notin DOMAIN sessionCache
    /\ getSession(req[w].jti) # {}

\* ------------------------------------------------------------ C4
\* The step of worker w that ends a successful login: the cache write of
\* createOrUpdateSession followed by the response carrying the token.
LoginCompletes(w) ==
  req[w].kind = "login" /\ req[w].pc = "lg_cache" /\ req'[w].pc = "done"

\* C4: however the logins of one subject interleave between the database
\* upsert and the cache write, the Session table holds for that subject
\* exactly the row written by the last upsert; a token passes hasSession only
\* if it carries the sessionID of that row, and when a login completes its
\* token is good for hasSession exactly if that login was the last writer.
C4_LastWriterSurvives ==
  /\ [](\A u \in Users :
         /\ RowsByUserPK(u) =
              {r \in sessionTable : r.sessionID = lastWriter[u]}
         /\ Cardinality(RowsByUserPK(u)) = IF lastWriter[u] = None THEN 0 ELSE 1
         /\ \A j \in IssuedTo(u) : SessionValid(j) => j = lastWriter[u])
  /\ [][\A w \in Workers :
         /\ (req[w].kind \in SessionKinds /\ req[w].pc = "hs_update" /\ req'[w].passed)
              => req[w].jti = lastWriter[req[w].sub]
         /\ LoginCompletes(w)
              => (SessionValidIn(sessionCache', sessionTable', req[w].sessionID)
                    <=> req[w].sessionID = lastWriter[req[w].user])]_vars

\* Two logins of alice, the second upsert made while the first login had not
\* yet written the cache, have both been answered 200: one row is left, and
\* one of the two tokens is good.
C4_Witness ==
  /\ started = 2
  /\ \E w, v \in Workers :
       /\ w # v
       /\ req[w].kind = "login" /\ req[w].pc = "done" /\ req[w].status = 200
       /\ req[v].kind = "login" /\ req[v].pc = "done" /\ req[v].status = 200
       /\ req[v].overlapped
  /\ Cardinality(IssuedTo("alice")) = 2
  /\ Cardinality(RowsByUserPK("alice")) = 1
  /\ Cardinality({j \in IssuedTo("alice") : SessionValid(j)}) = 1

\* ------------------------------------------------------------ C5
\* The identifiers drawn so far.
Drawn == {UUID(n) : n \in 1..nextUUID}

\* C5: the Session table never holds two rows of one user, and the upsert of
\* a login for a user who has a row leaves that row in place (same sessionPK)
\* with a sessionID never used before, adding no row.
C5_OneRowPerUser ==
  /\ [](\A u \in Users : Cardinality(RowsByUserPK(u)) <= 1)
  /\ [][\A w \in Workers :
         (req[w].kind = "login" /\ req[w].pc = "lg_upsert" /\ req'[w].pc = "lg_cache")
           => LET u == req[w].user
                  old == RowsByUserPK(u)
                  new == {r \in sessionTable' : r.userPK = UserPK(u)}
              IN /\ Cardinality(new) = 1
                 /\ \A r \in new : r.sessionID \notin Drawn
                 /\ \A o \in old : \A r \in new :
                      r.sessionPK = o.sessionPK /\ r.sessionID # o.sessionID
                 /\ sessionTable' \ new = sessionTable \ old]_vars

\* A user has logged in twice, a session deletion lying behind: the table
\* holds one row for the user, under a sessionID other than the first token's.
C5_Witness ==
  \E u \in Users :
    /\ Cardinality(IssuedTo(u)) >= 2
    /\ Cardinality(RowsByUserPK(u)) = 1
    /\ \E j \in IssuedTo(u) : getSession(j) = {}
    /\ \E r \in revoked : r.by = "logout"

\* ------------------------------------------------------------ C6
\* A login that completes in sequence: its upsert was the last one for the
\* user, and no other login of the user was between its upsert and its
\* cache write when this one made its upsert.
SequentialLoginCompletes(w) ==
  /\ LoginCompletes(w)
  /\ ~req[w].overlapped
  /\ req[w].sessionID = lastWriter[req[w].user]

\* C6 as stated: when the second login completes, the cache lookup of the
\* earlier sessionID s1 is absent and that of the new sessionID s2 is the subject.
C6_SupersededKeyAbsent ==
  [][\A w \in Workers :
       SequentialLoginCompletes(w)
         => /\ req[w].sessionID \in DOMAIN sessionCache'
            /\ sessionCache'[req[w].sessionID] = req[w].user
            /\ \A s1 \in IssuedTo(req[w].user) \ {req[w].sessionID} :
                 s1 \notin DOMAIN sessionCache']_vars

\* C6: when the second login completes, the lookup that hasSession makes for
\* the earlier sessionID s1 (the cache, then the Session row) finds no
\* session, so s1 is refused, while its cache key may stay until hasSession
\* purges it; the cache lookup of s2 is the subject and s2 is good.
C6_SupersededSessionRefused ==
  [][\A w \in Workers :
       SequentialLoginCompletes(w)
         => /\ req[w].sessionID \in DOMAIN sessionCache'
            /\ sessionCache'[req[w].sessionID] = req[w].user
            /\ SessionValidIn(sessionCache', sessionTable', req[w].sessionID)
            /\ \A s1 \in IssuedTo(req[w].user) \ {req[w].sessionID} :
                 /\ ~SessionValidIn(sessionCache', sessionTable', s1)
                 /\ \A r \in sessionTable' : r.sessionID # s1]_vars

\* alice has logged in twice in sequence: the cache still maps the first
\* sessionID to her, the Session row carries the second.
C6_Witness ==
  /\ started = 2
  /\ \A w \in Workers : req[w].kind = "login" /\ req[w].pc = "done" /\ ~req[w].overlapped
  /\ Cardinality(IssuedTo("alice")) = 2
  /\ \E s1, s2 \in IssuedTo("alice") :
       /\ s1 # s2
       /\ getUserIDFromSession(s1) = "alice" /\ getSession(s1) = {}
       /\ getUserIDFromSession(s2) = "alice" /\ getSession(s2) # {}

\* ------------------------------------------------------------ C7
\* C7: a request that presents a session token after a resetPassword or an
\* updatePassword of the token's subject was answered with success, the token
\* having been issued before the password was written, never passes
\* hasSession; from the success response on, no such token is good.
C7_PriorTokensRejected ==
  /\ \A w \in Workers :
       (req[w].kind \in SessionKinds
          /\ req[w].after \cap {"resetPassword", "updatePassword"} # {})
         => (~req[w].passed /\ req[w].pc \notin {"del_db", "del_cache", "up_user", "up_write"})
  /\ \A r \in revoked :
       r.by \in {"resetPassword", "updatePassword"} => ~SessionValid(r.jti)

\* A token of alice, presented after her password was reset, and after her
\* password was updated, has been refused with 401.
C7_Witness ==
  \E w \in Workers :
    /\ req[w].kind \in SessionKinds /\ req[w].pc = "done"
    /\ req[w].after \cap {"resetPassword", "updatePassword"} # {}
    /\ req[w].status = 401
    /\ req[w].jti \in IssuedTo("alice")

\* ------------------------------------------------------------ C8
\* C8: when logout, updatePassword or resetPassword has sent its success
\* response, the deletion it made is in the stores: a token whose revocation
\* was acknowledged is not good in any later state, and a hasSession check
\* that starts after the response refuses it.
C8_RevokedBeforeResponse ==
  /\ \A r \in revoked : ~SessionValid(r.jti)
  /\ \A w \in Workers :
       (req[w].kind \in SessionKinds /\ req[w].after # {})
         => (~req[w].passed /\ req[w].pc \in {"hs_cache", "hs_db", "hs_purge", "done"})

\* A token was presented after the logout that revoked it was answered 200,
\* and was refused with 401.
C8_Witness ==
  \E w \in Workers :
    /\ req[w].kind \in SessionKinds /\ req[w].pc = "done"
    /\ "logout" \in req[w].after
    /\ req[w].status = 401 /\ ~req[w].passed

\* ------------------------------------------------------------ C2
\* C2 as stated: of the verifyOTP requests that present one code for one
\* subject and validate it within one time-step, at most one is answered
\* with a step-up token.
C2_OneTokenPerCode ==
  \A u \in Users : \A a, b \in otpLog[u].tokens :
    (a.code = b.code /\ a.step = b.step) => a.jti = b.jti

\* ------------------------------------------------------------ C3
\* The handler has taken the lockout branch.
AlertPcs == {"vo_alert", "vo_alert_set", "vo_alert_mail"}
LockedOut(r) == r.pc \in AlertPcs \/ (r.pc = "done" /\ r.status = 429)

\* C3 as stated: a verifyOTP that starts when the failures counted for its
\* subject in the current window have reached 3 is refused as locked out,
\* however many failures were counted.
C3_LockedOutOnceThresholdReached ==
  \A w \in Workers :
    (/\ req[w].kind = "verifyOTP"
     /\ req[w].strikesAtStart >= OtpAttemptLimit
     /\ ~req[w].expired
     /\ req[w].attempts # -1)
      => LockedOut(req[w])

\* ------------------------------------------------------------ C9
\* C9: a verifyOTP that starts when exactly three failed verifications are
\* counted for its subject, no other request for the subject being handled,
\* reads a counter of 3 and is answered 429: the code is not compared and no
\* step-up token is issued, whatever the code.
C9_FourthAttemptLockedOut ==
  \A w \in Workers :
    (/\ req[w].kind = "verifyOTP"
     /\ req[w].strikesAtStart = OtpAttemptLimit
     /\ req[w].alone
     /\ ~req[w].expired
     /\ req[w].attempts # -1)
      => /\ req[w].attempts = OtpAttemptLimit
         /\ LockedOut(req[w])
         /\ ~req[w].compared
         /\ req[w].jti = None
         /\ \A t \in otpLog[req[w].userID].tokens : t.jti # req[w].jti

\* After three failures the fourth request presented the code of the current
\* time-step and was answered 429 without a comparison.
C9_Witness ==
  \E w \in Workers :
    /\ req[w].kind = "verifyOTP" /\ req[w].pc = "done" /\ req[w].status = 429
    /\ req[w].strikesAtStart = OtpAttemptLimit /\ req[w].alone /\ ~req[w].expired
    /\ req[w].code = TOTP(users[req[w].userID].totpSecret, req[w].startStep)
    /\ req[w].decidedStep = req[w].startStep
    /\ ~req[w].compared

\* ------------------------------------------------------------ C10
\* The handler decided on the request within the time-step it started in.
DecidedInStep(r) == r.kind = "verifyOTP" /\ r.decidedStep # -1 /\ r.decidedStep = r.startStep

\* The request presents the code of the time-step it started in, the code of
\* the time-step before having been accepted for the subject.
NextStepCode(r) ==
  /\ r.startStep >= 1
  /\ r.code = TOTP(r.secret, r.startStep)
  /\ TOTP(r.secret, r.startStep - 1) \in otpLog[r.userID].accepted

\* C10 as stated: a request presenting a code that was accepted for the
\* subject earlier in the time-step is answered 410 (replayed) and gets no
\* token; a request presenting the code of the next time-step is accepted.
C10_ReplayRejectedNextAccepted ==
  \A w \in Workers :
    DecidedInStep(req[w]) =>
      /\ req[w].replay =>
           /\ req[w].jti = None
           /\ req[w].pc \in {"vo_strike", "done"} /\ req[w].status = 410
      /\ (NextStepCode(req[w]) /\ req[w].status # 410) =>
           /\ req[w].pc \in {"vo_blacklist", "vo_session", "done"}
           /\ req[w].pc = "done" => (req[w].status = 200 /\ req[w].jti # None)

\* C10: a request presenting a code that was accepted for the subject
\* earlier in the time-step gets no token: it is answered 410 (replayed) and
\* counted as a failure, or 429 when the subject's counter stands at 3; a
\* request presenting the code of the next time-step is accepted unless the
\* counter stands at 3.
C10_ReplayRefusedNextAcceptedUnlessLocked ==
  \A w \in Workers :
    DecidedInStep(req[w]) =>
      /\ req[w].replay =>
           /\ req[w].jti = None
           /\ \/ req[w].pc \in {"vo_strike", "done"} /\ req[w].status = 410
              \/ req[w].attempts = OtpAttemptLimit /\ LockedOut(req[w])
      /\ (NextStepCode(req[w]) /\ req[w].status # 410) =>
           \/ req[w].attempts = OtpAttemptLimit /\ LockedOut(req[w])
           \/ /\ req[w].attempts # OtpAttemptLimit
              /\ req[w].compared
              /\ req[w].pc \in {"vo_blacklist", "vo_session", "done"}
              /\ req[w].pc = "done" => (req[w].status = 200 /\ req[w].jti # None)

\* The code of time-step 0 was accepted and its replay in that time-step was
\* answered 410; the code of time-step 1 was then accepted.
C10_Witness ==
  /\ \E w \in Workers :
       /\ req[w].kind = "verifyOTP" /\ req[w].pc = "done" /\ req[w].status = 410
       /\ req[w].replay /\ req[w].decidedStep = req[w].startStep
       /\ req[w].startStep = 0
  /\ \E w \in Workers :
       /\ req[w].kind = "verifyOTP" /\ req[w].pc = "done" /\ req[w].status = 200
       /\ NextStepCode(req[w]) /\ req[w].decidedStep = req[w].startStep

\* ------------------------------------------------------------ C11
\* C11 as stated: within one lockout window of a subject at most one security
\* notification is sent, however the attempts for the subject interleave.
C11_OneNotificationPerEpisode ==
  \A u \in Users : otpLog[u].notified <= 1

\* ------------------------------------------------------------ C12
\* The step of request w that answers a failed verification of user u: the
\* 401 of login for a wrong password, the 401 of updatePassword for a wrong
\* current password, the 401 or 410 of verifyOTP.
FailedVerification(w, u) ==
  \/ /\ LoginFindUser(w)
     /\ u = getUserByCredentials(req[w].username)
     /\ req'[w].pc = "done" /\ req'[w].status = 401
  \/ /\ UpdatePasswordCheck(w)
     /\ u = req[w].userID
     /\ req'[w].pc = "done" /\ req'[w].wrongCurrent
  \/ /\ VerifyOtpStrike(w)
     /\ u = req[w].userID

\* C12 as stated: every failed verification (wrong or replayed OTP, wrong
\* password in login, wrong current password in updatePassword) adds exactly
\* one to the lockout counter of its subject.
C12_FailedVerificationCountsStrike ==
  [][\A w \in Workers, u \in Users :
       FailedVerification(w, u) => otpAttempts'[u] = otpAttempts[u] + 1]_vars

\* ------------------------------------------------------------ C13
\* C13 as stated: a code that verifyOTP accepts is derived from the secret the
\* user has when it is accepted, so no code of a secret that updateMFA has
\* replaced is accepted, whenever the accepting request started.
C13_NoCodeOfRotatedSecretAccepted ==
  [][\A w \in Workers :
       (VerifyOtpValidate(w) /\ req'[w].pc = "vo_blacklist")
         => req[w].code.secret = users[req[w].userID].totpSecret]_vars

\* ------------------------------------------------------------ C14
\* C14 as stated: when resetPassword writes a password, the token presented
\* is the reset token its user holds at that moment, that is the most recently
\* issued one, not yet cleared by a use; so no token resets a password twice.
C14_ResetOnlyWithCurrentToken ==
  [][\A w \in Workers :
       ResetPasswordWrite(w)
         => users[req[w].userID].forgotPasswordCode = req[w].token]_vars

\* ------------------------------------------------------------ C15
\* C15 as stated: the payload that signHS256JWT(jti, sub, expiration) builds
\* has sub and jti as given, exp - iat = expiration * 60 and nbf = iat, at
\* whatever times the clock is read while the payload is built.
C15_PayloadOfSignHS256JWT ==
  \A w \in Workers :
    (req[w].kind = "sign" /\ req[w].pc = "done") =>
      /\ req[w].payload.sub = req[w].sub
      /\ req[w].payload.jti = req[w].jti
      /\ req[w].payload.exp - req[w].payload.iat = req[w].expiration * 60
      /\ req[w].payload.nbf = req[w].payload.iat

\* ------------------------------------------------------------ C16
\* C16: a request to a session-protected route whose token is missing,
\* expired, of another audience or issuer, or altered is answered 401 by the
\* step that verifies the token, which touches no store; such a request is
\* never at the session lookup, at a later step of hasSession or in a
\* controller, and it never passes.
C16_FaultyTokenRejectedBeforeLookup ==
  /\ [](\A w \in Workers :
         (req[w].kind = "protected" /\ "fault" \in DOMAIN req[w] /\ req[w].fault # "ok")
           => /\ req[w].pc \in {"hs_jwt", "done"}
              /\ ~req[w].passed
              /\ req[w].pc = "done" => req[w].status = 401)
  /\ [][\A w \in Workers :
         (/\ req[w].kind = "protected" /\ req[w].pc = "hs_jwt"
          /\ req[w].fault # "ok"
          /\ req'[w] # req[w])
           => /\ req'[w].pc = "done" /\ req'[w].status = 401 /\ ~req'[w].passed
              /\ UNCHANGED <<sessionCache, sessionTable>>]_vars

\* A request was answered 401 for its faulty token although the session of
\* the token is in the cache and in the Session table.
C16_Witness ==
  \E w \in Workers :
    /\ req[w].kind = "protected" /\ req[w].pc = "done"
    /\ "fault" \in DOMAIN req[w] /\ req[w].fault = "signature"
    /\ req[w].status = 401
    /\ SessionValid(req[w].jti)

\* ------------------------------------------------------------ C17
\* C17: the request that is counted as number n of its caller key in the
\* window is not delayed when n <= DelayAfter and is delayed by
\* (n - DelayAfter) * 200 ms otherwise, and it always goes on to the route;
\* counting a request changes the count of its own key only, by one, and
\* its number is that count, whatever the counts of the other keys are.
C17_DelayProportionalPerKey ==
  /\ [](\A w \in Workers :
         (req[w].kind = "throttled" /\ req[w].pc \in {"sd_wait", "done"}) =>
           /\ req[w].used <= DelayAfter => req[w].delay = 0
           /\ req[w].used > DelayAfter => req[w].delay = (req[w].used - DelayAfter) * 200
           /\ req[w].pc = "done" => req[w].status = 200)
  /\ [][\A w \in Workers :
         (req[w].kind = "throttled" /\ req[w].pc = "sd_count" /\ req'[w] # req[w]) =>
           /\ req'[w].used = (IF req[w].key \in DOMAIN hits THEN hits[req[w].key] ELSE 0) + 1
           /\ hits'[req[w].key] = req'[w].used
           /\ \A k \in Keys \ {req[w].key} :
                /\ (k \in DOMAIN hits') = (k \in DOMAIN hits)
                /\ k \in DOMAIN hits => hits'[k] = hits[k]]_vars

\* A caller's request number DelayAfter + 2 went on after a delay of 400 ms;
\* when it was counted another caller had one request counted.
C17_Witness ==
  \E w \in Workers :
    /\ req[w].kind = "throttled" /\ req[w].pc = "done"
    /\ req[w].used = DelayAfter + 2 /\ req[w].delay = 400
    /\ \E k \in DOMAIN req[w].before :
         k # req[w].key /\ req[w].before[k] = 1

\* ------------------------------------------------------------ C18
\* The fixed messages of errorHandler and handleOperationalErrors.
GenericMessages ==
  {<<"Invalid JSON! Please insert a valid one.">>,
   <<"Request too large! Please reduce your payload!">>,
   <<"Your request violates the constraints of the database. Please insert another data!">>,
   <<"Unknown zod validation error">>,
   <<"Failed to verify the integrity of the token.">>,
   <<"Internal server error!">>,
   <<"Unknown error! Please try again later!">>}

\* C18 as stated: a request whose handling raised an error is answered with
\* exactly one error response, of a 4xx or 5xx status; when the error is no
\* AppError the message sent is one of the fixed messages and holds no piece
\* of the message or of the issues of the error.
C18_OneGenericErrorResponse ==
  \A w \in Workers :
    (req[w].kind = "failing" /\ req[w].pc = "done") =>
      /\ req[w].responses = 1
      /\ req[w].status \in 400..599
      /\ req[w].err.class # "AppError" =>
           /\ req[w].sent.message \in GenericMessages
           /\ req[w].sent.message # req[w].err.message

\* ------------------------------------------------------------ C19
\* The session ID is held by both stores or by neither.
InBothOrNeither(cache, table, id) ==
  (id \in DOMAIN cache) <=> (\E r \in table : r.sessionID = id)

\* C19 as stated: when the cache write of a login or of a session deletion
\* fails after its database write, the session it was writing is, right
\* after the failure, in the cache and in the Session table or in neither.
C19_NoPartialWriteOnFailure ==
  [][\A w \in Workers :
       /\ LoginSetCacheFails(w)
            => InBothOrNeither(sessionCache', sessionTable', req'[w].failedID)
       /\ DeleteSessionCacheFails(w)
            => InBothOrNeither(sessionCache', sessionTable', req'[w].failedID)]_vars

PassedBefore(ran, a, b) ==
  \E i \in 1..Len(ran), j \in 1..Len(ran) : i < j /\ ran[i] = a /\ ran[j] = b

\* C21: the controller of update-mfa, of attendance check-in and check-out
\* and of the admin user routes has run only for requests for which
\* hasSession passed, then hasJWT passed, both before the controller; for
\* the admin user routes hasRole passed before the controller as well.
C21_ControllerAfterSessionAndJwt ==
  \A w \in Workers :
    (req[w].kind = "routed" /\ "controller" \in {req[w].ran[i] : i \in 1..Len(req[w].ran)}) =>
      /\ PassedBefore(req[w].ran, "hasSession", "hasJWT")
      /\ PassedBefore(req[w].ran, "hasJWT", "controller")
      /\ req[w].session /\ req[w].otp
      /\ req[w].route \notin {"auth.updateMFA", "attendance.in", "attendance.out"} =>
           (PassedBefore(req[w].ran, "hasRole", "controller") /\ req[w].admin)

\* One admin request reached the controller of an admin user route while a
\* request without otp-authorization token to update-mfa was answered 401.
C21_Witness ==
  /\ \E w \in Workers :
       /\ req[w].kind = "routed" /\ req[w].pc = "done" /\ req[w].status = 200
       /\ req[w].route = "users.updateUser"
  /\ \E w \in Workers :
       /\ req[w].kind = "routed" /\ req[w].pc = "done" /\ req[w].status = 401
       /\ req[w].route = "auth.updateMFA" /\ req[w].session /\ ~req[w].otp

\* ------------------------------------------------------------ C22
\* C22 as stated: a verifyOTP goes past its lockout check only when fewer
\* than 3 failures are counted for its subject, past its validation only when
\* the code is not in the blacklist and is a code of the subject's secret,
\* and the step that answers with the step-up token records the token's jti
\* for the same subject in the OTP-session store.
C22_TokenOnlyAfterAllChecks ==
  [][\A w \in Workers :
       /\ (VerifyOtpAttempts(w) /\ req'[w].pc = "vo_used")
            => otpAttempts[req[w].userID] < OtpAttemptLimit
       /\ (VerifyOtpValidate(w) /\ req'[w].pc = "vo_blacklist")
            => /\ ~getBlacklistedOTP(req[w].userID, req[w].code)
               /\ validateDefaultTOTP(req[w].code, users[req[w].userID].totpSecret, clock)
       /\ (VerifyOtpSession(w) /\ req'[w].status = 200)
            => /\ req'[w].jti \in DOMAIN otpSessions'
               /\ otpSessions'[req'[w].jti] = req[w].userID]_vars

StartStatus(w) ==
  /\ Free(w)
  /\ started < MaxRequests
  /\ \E t \in issued :
       req' = [req EXCEPT ![w] = [kind |-> "status", pc |-> "st_session", status |-> 0,
                                  jti |-> t.jti, sub |-> t.sub, session |-> None]]
  /\ started' = started + 1
  /\ UNCHANGED <<users, nextUUID, forgotAttempts, edgeVars, sessionVars, otpVars>>

\* sendUserStatus(req, res, isAuthenticated, isMFA, user): the 200 response.
sendUserStatus(w, isAuthenticated, isMFA, user) ==
  [kind |-> "status", pc |-> "done", status |-> 200, jti |-> req[w].jti, sub |-> req[w].sub,
   isAuthenticated |-> isAuthenticated, isMFA |-> isMFA, user |-> user]

\* AuthController.getStatus. Reading req.session.userID of an undefined
\* req.session throws inside the try block, and the catch block answers
\* with isAuthenticated = false; with a session, the user is looked up and
\* must exist and be active.
GetStatus(w) ==
  /\ req[w].pc = "st_session"
  /\ req' = [req EXCEPT ![w] =
       IF req[w].session = None
         THEN sendUserStatus(w, FALSE, FALSE, None)
       ELSE IF req[w].session \notin DOMAIN users
         THEN sendUserStatus(w, FALSE, FALSE, None)
       ELSE IF ~users[req[w].session].isActive
         THEN sendUserStatus(w, FALSE, FALSE, None)
       ELSE sendUserStatus(w, TRUE, FALSE, req[w].session)]
  /\ UNCHANGED <<users, nextUUID, forgotAttempts, edgeVars, started, sessionVars, otpVars>>

\* Logins and status requests.
NextStatus ==
  \E w \in Workers :
    \/ StartLogin(w)
    \/ LoginFindUser(w)
    \/ LoginUpsert(w)
    \/ LoginSetCache(w)
    \/ StartStatus(w)
    \/ GetStatus(w)

SpecStatus == Init /\ [][NextStatus]_vars

\* ------------------------------------------------------------ C24
\* C24 as stated: a status request whose token names a session that is in
\* the cache and in the database, of a user that exists and is active, is
\* answered with isAuthenticated = TRUE and that user.
C24_StatusReportsAuthenticated ==
  [][\A w \in Workers :
       (/\ GetStatus(w)
        /\ SessionValid(req[w].jti)
        /\ req[w].sub \in DOMAIN users
        /\ users[req[w].sub].isActive)
         => /\ req'[w].isAuthenticated
            /\ req'[w].user = req[w].sub]_vars

\* ------------------------------------------------------------ deleteMySession
\* CacheService.getUserSessions(userID): the session IDs the cache holds for
\* the user.
getUserSessions(userID) == {sid \in DOMAIN sessionCache : sessionCache[sid] = userID}

\* DELETE /sessions/me/:id with the bearer token t, behind hasSession; id is
\* the jti of some token issued so far.
StartDeleteMySession(w) ==
  /\ Free(w)
  /\ started < MaxRequests
  /\ \E t \in issued, i \in issued :
       req' = [req EXCEPT ![w] = [id |-> i.jti] @@ SessionRequest("deleteMySession", t)]
  /\ started' = started + 1
  /\ UNCHANGED <<users, nextUUID, forgotAttempts, edgeVars, sessionVars, otpVars>>

\* SessionController.deleteMySession up to its deletion: 404 unless one of
\* the user's sessions has sid = id; the deletion that follows is
\* SessionService.deleteSession({ sessionPK }) with req.session.sessionPK.
DeleteMySessionCheck(w) ==
  /\ req[w].pc = "dm_sessions"
  /\ req' = [req EXCEPT ![w] =
       IF req[w].id \in getUserSessions(req[w].userID)
         THEN [req[w] EXCEPT !.pc = "del_db"]
         ELSE Respond(w, 404)]
  /\ UNCHANGED <<users, nextUUID, forgotAttempts, edgeVars, started, sessionVars, otpVars>>

\* Logins and requests that delete one's own session.
NextSessions ==
  \E w \in Workers :
    \/ StartLogin(w)
    \/ LoginFindUser(w)
    \/ LoginUpsert(w)
    \/ LoginSetCache(w)
    \/ StartDeleteMySession(w)
    \/ HasSessionCache(w)
    \/ HasSessionDb(w)
    \/ HasSessionPurge(w)
    \/ HasSessionUser(w)
    \/ HasSessionUpdate(w)
    \/ DeleteMySessionCheck(w)
    \/ DeleteSessionDb(w)
    \/ DeleteSessionCache(w)

SpecSessions == Init /\ [][NextSessions]_vars

\* ------------------------------------------------------------ C25
\* C25 as stated: deleteMySession goes on to its deletion only when the
\* session with the given id is one of the requesting user's, the only row
\* and the only cache entry it removes are those of the session with that
\* id, and a request answered 404 removes nothing.
C25_DeletesTheSessionOfId ==
  [][\A w \in Workers :
       req[w].kind = "deleteMySession" =>
         /\ (DeleteMySessionCheck(w) /\ req'[w].pc = "del_db")
              => getUserIDFromSession(req[w].id) = req[w].userID
         /\ (DeleteMySessionCheck(w) /\ req'[w].pc = "done")
              => /\ req'[w].status = 404
                 /\ sessionTable' = sessionTable /\ sessionCache' = sessionCache
         /\ DeleteSessionDb(w)
              => \A r \in sessionTable \ sessionTable' : r.sessionID = req[w].id
         /\ DeleteSessionCache(w)
              => DOMAIN sessionCache \ DOMAIN sessionCache' \subseteq {req[w].id}]_vars

\* ------------------------------------------------------------ C26
\* C26 as stated: verifyEmail goes past its check only with the stored
\* confirmation code, the write that activates a user is made for a user whose
\* stored confirmation code is the presented one, and it leaves the code
\* cleared; hence no verifyEmail activates a user whose code was cleared by
\* an earlier verification.
C26_ActivatesOnlyWithStoredCode ==
  [][\A w \in Workers :
       /\ (VerifyEmailFind(w) /\ req'[w].pc = "ve_write")
            => req[w].code = users[req[w].email].confirmationCode
       /\ VerifyEmailWrite(w)
            => /\ req[w].code = users[req[w].email].confirmationCode
               /\ users'[req[w].email].confirmationCode = None]_vars

\* ------------------------------------------------------------ C27
\* C27: a login that names nobody, or presents a password that does not
\* verify against the user's stored hash, is answered 401 by the step that
\* looks the user up, and that step changes no session row and no cache
\* entry and issues no token; a login answered 401 is over.
C27_RefusedLoginChangesNothing ==
  [][\A w \in Workers :
       (/\ LoginFindUser(w)
        /\ \/ getUserByCredentials(req[w].username) = None
           \/ ~verifyPassword(users[req[w].username].password, req[w].password))
         => /\ req'[w].pc = "done" /\ req'[w].status = 401
            /\ sessionTable' = sessionTable
            /\ sessionCache' = sessionCache
            /\ issued' = issued]_vars

\* A login was answered 401 while no session row, cache entry or token exists.
C27_Witness ==
  /\ \E w \in Workers :
       req[w].kind = "login" /\ req[w].pc = "done" /\ req[w].status = 401
  /\ sessionTable = {} /\ DOMAIN sessionCache = {} /\ issued = {}
  /\ started = 1

\* ------------------------------------------------------------ hasSession, scheduling
\* The steps of worker w that the event loop runs by itself once the awaited
\* call of the step before has settled: every step but the arrival of a request.
SessionSteps(w) ==
  \/ LoginFindUser(w)
  \/ LoginUpsert(w)
  \/ LoginSetCache(w)
  \/ HasSessionCache(w)
  \/ HasSessionDb(w)
  \/ HasSessionPurge(w)
  \/ HasSessionUser(w)
  \/ HasSessionUpdate(w)
  \/ DeleteMySessionCheck(w)
  \/ DeleteSessionDb(w)
  \/ DeleteSessionCache(w)

\* SpecSessions with every pending continuation eventually run.
SpecSessionsFair == SpecSessions /\ \A w \in Workers : WF_vars(SessionSteps(w))

\* hasSession has called next for the request of worker w: next() (passed), or
\* next(error), which the error handler answers with the error's 400, 401 or 403.
NextCalled(w) ==
  /\ req[w].kind \in SessionKinds
  /\ \/ req[w].passed
     \/ req[w].pc = "done" /\ req[w].status \in {400, 401, 403}

\* ------------------------------------------------------------ C28
\* C28 as stated: every request that enters hasSession is eventually passed
\* on by it, to the next middleware or to the error handler.
C28_HasSessionEventuallyCallsNext ==
  \A w \in Workers :
    (req[w].kind \in SessionKinds /\ req[w].pc = "hs_cache") ~> NextCalled(w)

\* ------------------------------------------------------------ C29
\* C29 as stated: forgotPassword goes past its lookup, and writes a reset
\* token, only for a request whose email and username are owned by the same
\* user; a request that pairs the email of one user with the username of
\* another is answered 401 by the lookup step.
C29_ResetTokenOnlyForMatchingPair ==
  [][\A w \in Workers :
       /\ (ForgotPasswordFind(w) /\ req'[w].pc = "fp_attempts")
            => req[w].email = req[w].username
       /\ (/\ ForgotPasswordFind(w)
           /\ req[w].email \in DOMAIN users /\ req[w].username \in DOMAIN users
           /\ req[w].email # req[w].username)
            => req'[w].pc = "done" /\ req'[w].status = 401
       /\ ForgotPasswordWrite(w) => req[w].email = req[w].username]_vars

\* ------------------------------------------------------------ verifyOTP behind hasSession
\* PUT /auth/otp as the route runs it: hasSession has passed the request of
\* a token whose session is in the cache and in the database and whose user
\* is active, and has set req.session.userID to that user; the controller
\* then reads the user's ID and the code from the Basic credentials.
StartVerifyOtpInSession(w) ==
  /\ Free(w)
  /\ started < MaxRequests
  /\ \E t \in issued :
       /\ SessionValid(t.jti)
       /\ users[t.sub].isActive
       /\ \E u \in OtpClients : \E code \in Presentable(u) :
            req' = [req EXCEPT ![w] = [session |-> t.sub] @@ VerifyOtpRequest(w, u, code)]
  /\ started' = started + 1
  /\ UNCHANGED <<users, nextUUID, forgotAttempts, edgeVars, sessionVars, otpVars>>

\* Logins, and OTP verifications by the logged-in users.
NextOtpSession ==
  \E w \in Workers :
    \/ StartLogin(w)
    \/ LoginFindUser(w)
    \/ LoginUpsert(w)
    \/ LoginSetCache(w)
    \/ StartVerifyOtpInSession(w)
    \/ VerifyOtpUser(w)
    \/ VerifyOtpAttempts(w)
    \/ VerifyOtpAlertLock(w)
    \/ VerifyOtpAlertSet(w)
    \/ VerifyOtpAlertMail(w)
    \/ VerifyOtpValidate(w)
    \/ VerifyOtpStrike(w)
    \/ VerifyOtpBlacklist(w)
    \/ VerifyOtpSession(w)

SpecOtpSession == InitOTP /\ [][NextOtpSession]_vars

\* ------------------------------------------------------------ C30
\* C30 as stated: the user whose secret verifyOTP reads, whose failure
\* counter it increments and for whom it records the step-up token is the
\* user of the request's session.
C30_ActsOnSessionUser ==
  [][\A w \in Workers :
       (req[w].kind = "verifyOTP" /\ "session" \in DOMAIN req[w]) =>
         /\ (VerifyOtpUser(w) /\ req'[w].pc = "vo_attempts")
              => req'[w].secret = users[req[w].session].totpSecret
         /\ VerifyOtpStrike(w)
              => \A u \in Users :
                   otpAttempts'[u] # otpAttempts[u] => u = req[w].session
         /\ (VerifyOtpSession(w) /\ req'[w].status = 200)
              => otpSessions'[req'[w].jti] = req[w].session]_vars

\* ------------------------------------------------------------ C31
\* C31: when hasSession passes a request on, the user it read from the cache
\* for the token's jti is the token's sub and owns every session row with
\* that sessionID; the cache maps the jti of every issued token to the
\* token's sub or not at all.
C31_AttachedUserIsSubAndRowOwner ==
  [][/\ \A w \in Workers :
          (HasSessionUpdate(w) /\ req'[w].passed)
            => /\ req[w].userID = req[w].sub
               /\ \A r \in RowsBySessionID(req[w].jti) : r.userPK = UserPK(req[w].userID)
     /\ \A t \in issued' :
          t.jti \in DOMAIN sessionCache' => sessionCache'[t.jti] = t.sub]_vars

\* Both users hold a session, and a request with bob's token was passed on.
C31_Witness ==
  /\ \E r \in sessionTable : r.userPK = UserPK("alice")
  /\ \E w \in Workers :
       /\ req[w].kind \in SessionKinds /\ req[w].pc = "done" /\ req[w].passed
       /\ \E t \in issued : t.jti = req[w].jti /\ t.sub = "bob"

\* ------------------------------------------------------------ forgotPassword, mail fault
\* Email.sendForgotPassword rejects (the mail server cannot be reached) after
\* updateUser has stored the token; forgotPassword, wrapped in asyncHandler,
\* ends in errorHandler. Nothing undoes the updateUser, and
\* setForgotPasswordAttempts is not reached.
ForgotPasswordSendFails(w) ==
  /\ req[w].pc = "fp_mail"
  /\ req' = [req EXCEPT ![w] =
       Respond(w, errorHandler(ErrorOf("Error", "Error", None,
                                       <<"connect ECONNREFUSED 127.0.0.1:25">>)).statusCode)]
  /\ UNCHANGED <<users, nextUUID, forgotAttempts, edgeVars, started, sessionVars, otpVars>>

\* forgotPassword requests whose mail may fail.
NextForgot ==
  \E w \in Workers :
    \/ StartForgotPassword(w)
    \/ ForgotPasswordFind(w)
    \/ ForgotPasswordAttempts(w)
    \/ ForgotPasswordWrite(w)
    \/ ForgotPasswordSend(w)
    \/ ForgotPasswordSendFails(w)

SpecForgot == Init /\ [][NextForgot]_vars

\* ------------------------------------------------------------ C32
\* C32 as stated: a forgotPassword, resetPassword or updatePassword that is
\* answered with an error has written nothing: the step that answers with a
\* status of 400 or more is not taken from a position the request reaches
\* only through its own updateUser.
C32_ErrorAnswerAfterNoWrite ==
  [][\A w \in Workers :
       (/\ req[w].kind \in {"forgotPassword", "resetPassword", "updatePassword"}
        /\ req[w].pc # "done" /\ req'[w].pc = "done"
        /\ req'[w].status >= 400)
         => req[w].pc \notin {"fp_mail", "rp_cache", "del_db", "del_cache"}]_vars

\* ------------------------------------------------------------ C33
\* C33 as stated: a reset token is written only for a subject for whom fewer
\* than two forgotPassword requests have been served in the window, and no
\* more than two are ever served.
C33_AtMostTwoResetTokens ==
  [][\A w \in Workers :
       /\ ForgotPasswordWrite(w)
            => forgotAttempts[req[w].userID] < ForgotPasswordLimit
       /\ ForgotPasswordSend(w)
            => forgotAttempts'[req[w].userID] <= ForgotPasswordLimit]_vars

\* ------------------------------------------------------------ sendOTP
\* The media a request may ask for (the validation layer admits no other).
Media == {"email", "sms", "authenticator"}

\* POST /auth/otp?media=..., hasSession having passed the request on with
\* req.session.userID = u.
StartSendOTP(w) ==
  /\ Free(w)
  /\ started < MaxRequests
  /\ \E u \in MfaClients, media \in Media :
       req' = [req EXCEPT ![w] = [kind |-> "sendOTP", pc |-> "so_user", status |-> 0,
                                  userID |-> u, media |-> media]]
  /\ started' = started + 1
  /\ UNCHANGED <<users, nextUUID, forgotAttempts, edgeVars, sessionVars, otpVars>>

\* UserService.getUserComplete({ userID }): 404 for an unknown user.
SendOtpUser(w) ==
  /\ req[w].pc = "so_user"
  /\ req' = [req EXCEPT ![w] =
       IF req[w].userID \notin DOMAIN users
         THEN Done("sendOTP", 404)
         ELSE [req[w] EXCEPT !.pc = "so_asked"]]
  /\ UNCHANGED <<users, nextUUID, forgotAttempts, edgeVars, started, sessionVars, otpVars>>

\* CacheService.getHasAskedOTP(userID): 429 while the marker is set. For the
\* media sms the handler goes on to its 501 without a further awaited call.
SendOtpAsked(w) ==
  /\ req[w].pc = "so_asked"
  /\ req' = [req EXCEPT ![w] =
       IF req[w].userID \in hasAskedOTP THEN Done("sendOTP", 429)
       ELSE IF req[w].media = "email" THEN [req[w] EXCEPT !.pc = "so_mail"]
       ELSE IF req[w].media = "sms" THEN Done("sendOTP", 501)
       ELSE [req[w] EXCEPT !.pc = "so_mark"]]
  /\ UNCHANGED <<users, nextUUID, forgotAttempts, edgeVars, started, sessionVars, otpVars>>

\* Email.sendOTP(totp.token): the OTP message goes out.
SendOtpMail(w) ==
  /\ req[w].pc = "so_mail"
  /\ req' = [req EXCEPT ![w] = [req[w] EXCEPT !.pc = "so_mark"]]
  /\ UNCHANGED <<users, nextUUID, forgotAttempts, edgeVars, started, sessionVars, otpVars>>

\* CacheService.setHasAskedOTP(userID), then the 202 response.
SendOtpMark(w) ==
  /\ req[w].pc = "so_mark"
  /\ hasAskedOTP' = hasAskedOTP \cup {req[w].userID}
  /\ req' = [req EXCEPT ![w] = [req[w] EXCEPT !.pc = "done", !.status = 202]]
  /\ UNCHANGED <<users, nextUUID, forgotAttempts, dateNow, hits, started, sessionVars, otpVars>>

\* The marker's time to live runs out.
HasAskedExpire ==
  /\ \E u \in hasAskedOTP : hasAskedOTP' = hasAskedOTP \ {u}
  /\ UNCHANGED <<appVars, dateNow, hits, req, started>>

NextSendOTP ==
  \/ \E w \in Workers :
       \/ StartSendOTP(w)
       \/ SendOtpUser(w)
       \/ SendOtpAsked(w)
       \/ SendOtpMail(w)
       \/ SendOtpMark(w)
  \/ HasAskedExpire

SpecSendOTP == Init /\ [][NextSendOTP]_vars

\* ------------------------------------------------------------ C34
\* C34 as stated: while a user's has-asked marker is set, a sendOTP for that
\* user goes no further than its marker check, where it is answered 429, and
\* no OTP message is sent for the user.
C34_NoOtpMessageWhileMarked ==
  [][\A w \in Workers :
       /\ (SendOtpAsked(w) /\ req[w].userID \in hasAskedOTP)
            => req'[w].pc = "done" /\ req'[w].status = 429
       /\ SendOtpMail(w) => req[w].userID \notin hasAskedOTP]_vars

C36_EntryWithoutRowIsPurged ==
  [][\A w \in Workers :
       /\ (HasSessionDb(w) /\ getSession(req[w].jti) = {})
            => req'[w].pc = "hs_purge"
       /\ HasSessionPurge(w)
            => /\ req[w].jti \notin DOMAIN sessionCache'
               /\ req'[w].pc = "done" /\ req'[w].status = 401 /\ ~req'[w].passed
       /\ (HasSessionUpdate(w) /\ req'[w].passed)
            => getSession(req[w].jti) # {}]_vars

\* A request found its jti in the cache, was answered 401, and the jti is
\* in the cache no more although its user holds a newer session.
C36_Witness ==
  \E w \in Workers :
    /\ req[w].kind \in SessionKinds /\ req[w].pc = "done"
    /\ req[w].hit /\ req[w].status = 401 /\ ~req[w].passed
    /\ req[w].jti \notin DOMAIN sessionCache
    /\ sessionTable # {}

====
